---- MODULE Spec2Model ----
(***************************************************************************)
(* Model of the adaptive blob rendering engine of react-blobs-bg:          *)
(* hardware tier detection, quality resolution, the render effect          *)
(* (setup / frame callback / cleanup) and its caches.                      *)
(*                                                                         *)
(* Time is in milliseconds.  Optional values (undefined / null in the      *)
(* source) are sequences of length 0 or 1: <<>> is absent, <<v>> is v.     *)
(***************************************************************************)
EXTENDS Integers, Sequences, FiniteSets, TLC

(***************************************************************************)
(* Bounds of the model.                                                    *)
(***************************************************************************)
\* largest requested blob count drawn for the quality resolver
MaxRequested == 13
\* last instant (ms) at which an animation frame may begin
MaxTime == 110
\* spacing of the display's animation frames (ms)
FrameStepMs == 25
\* most runs of the render effect's setup for one component instance
MaxStarts == 3
\* most events that disturb one component instance from outside: host
\* re-renders with changed props and frames whose gradient creation throws
MaxHostUpdates == 1
\* the resize notifications delivered to one component instance
MaxNotifications == 3
\* the time until which resize notifications are followed, and the time
\* between two animation frames while they are
MaxResizeTime == 250
ResizeStepMs == 50
MaxIndex == 4
MaxCalls == 5
MaxRegions == 3
MaxBlobs == 7
\* the frames followed while the host lets the blobs drift, and the time
\* between two of them (ms)
MaxDriftFrames == 4
DriftStepMs == 50

(***************************************************************************)
(* constants/index.ts                                                      *)
(***************************************************************************)
ANIMATION_CONFIG ==
  [ blobCount  |-> [default |-> 12, low |-> 6, medium |-> 9, high |-> 12],
    renderSize |-> 32,
    frameRates |-> [low |-> 20, medium |-> 30, high |-> 60],
    blurAmounts |-> [low |-> 2, medium |-> 3, high |-> 4],
    resizeDebounceDelayMs |-> 100,
    scaleRange |-> [min |-> 200, max |-> 1700],       \* in thousandths
    dirtyRegion |-> [padding |-> 10, blobSizeMultiplier |-> 50,
                     minBlobSize |-> 20, rotationThresholdDegrees |-> 5,
                     positionThresholdPixels |-> 2],
    rendering |-> [yPositionDivisor |-> 8, gradientPositionDivisor |-> 8] ]

Tiers == {"low", "medium", "high"}

\* a ?? b
Coalesce(opt, dflt) == IF opt = <<>> THEN dflt ELSE opt[1]

Min(a, b) == IF a < b THEN a ELSE b
Max(a, b) == IF a > b THEN a ELSE b

(***************************************************************************)
(* Quality resolver: the performanceTier expression and the                *)
(* qualitySettings memo of the component.                                  *)
(***************************************************************************)
\* performanceTierProp || detectedPerformanceTier || "medium"
performanceTier(performanceTierProp, detectedPerformanceTier) ==
  IF performanceTierProp # <<>> THEN performanceTierProp[1]
  ELSE IF detectedPerformanceTier # <<>> THEN detectedPerformanceTier[1]
  ELSE "medium"

qualitySettingsCapDropped(qualitySettingsProp, loading, tier, numBlobs) ==
  IF qualitySettingsProp # <<>> THEN
    [ blobCount  |-> Coalesce(qualitySettingsProp[1].blobCount, numBlobs),
      frameRate  |-> Coalesce(qualitySettingsProp[1].frameRate,
                              ANIMATION_CONFIG.frameRates.medium),
      blurAmount |-> Coalesce(qualitySettingsProp[1].blurAmount,
                              ANIMATION_CONFIG.blurAmounts.medium) ]
  ELSE IF loading THEN
    [ blobCount  |-> numBlobs,
      frameRate  |-> ANIMATION_CONFIG.frameRates.medium,
      blurAmount |-> ANIMATION_CONFIG.blurAmounts.medium ]
  ELSE
    [ blobCount  |-> numBlobs,
      frameRate  |-> ANIMATION_CONFIG.frameRates[tier],
      blurAmount |-> ANIMATION_CONFIG.blurAmounts[tier] ]

qualitySettingsTierAware(qualitySettingsProp, loading, tier, numBlobs) ==
  IF qualitySettingsProp # <<>> THEN
    [ blobCount  |-> Coalesce(qualitySettingsProp[1].blobCount, numBlobs),
      frameRate  |-> Coalesce(qualitySettingsProp[1].frameRate,
                              ANIMATION_CONFIG.frameRates[tier]),
      blurAmount |-> Coalesce(qualitySettingsProp[1].blurAmount,
                              ANIMATION_CONFIG.blurAmounts[tier]) ]
  ELSE qualitySettingsCapDropped(qualitySettingsProp, loading, tier, numBlobs)

qualitySettingsTierWhilePending(qualitySettingsProp, loading, tier, numBlobs) ==
  IF qualitySettingsProp = <<>> /\ loading THEN
    [ blobCount  |-> Min(ANIMATION_CONFIG.blobCount[tier], numBlobs),
      frameRate  |-> ANIMATION_CONFIG.frameRates[tier],
      blurAmount |-> ANIMATION_CONFIG.blurAmounts[tier] ]
  ELSE qualitySettingsCapDropped(qualitySettingsProp, loading, tier, numBlobs)

qualitySettings(qualitySettingsProp, loading, tier, numBlobs) ==
  IF qualitySettingsProp # <<>> THEN
    [ blobCount  |-> Coalesce(qualitySettingsProp[1].blobCount, numBlobs),
      frameRate  |-> Coalesce(qualitySettingsProp[1].frameRate,
                              ANIMATION_CONFIG.frameRates.medium),
      blurAmount |-> Coalesce(qualitySettingsProp[1].blurAmount,
                              ANIMATION_CONFIG.blurAmounts.medium) ]
  ELSE IF loading THEN
    [ blobCount  |-> numBlobs,
      frameRate  |-> ANIMATION_CONFIG.frameRates.medium,
      blurAmount |-> ANIMATION_CONFIG.blurAmounts.medium ]
  ELSE CASE tier = "low" ->
              [ blobCount  |-> Min(ANIMATION_CONFIG.blobCount.low, numBlobs),
                frameRate  |-> ANIMATION_CONFIG.frameRates.low,
                blurAmount |-> ANIMATION_CONFIG.blurAmounts.low ]
         [] tier = "medium" ->
              [ blobCount  |-> Min(ANIMATION_CONFIG.blobCount.medium, numBlobs),
                frameRate  |-> ANIMATION_CONFIG.frameRates.medium,
                blurAmount |-> ANIMATION_CONFIG.blurAmounts.medium ]
         [] tier = "high" ->
              [ blobCount  |-> numBlobs,
                frameRate  |-> ANIMATION_CONFIG.frameRates.high,
                blurAmount |-> ANIMATION_CONFIG.blurAmounts.high ]
         [] OTHER ->
              [ blobCount  |-> numBlobs,
                frameRate  |-> ANIMATION_CONFIG.frameRates.medium,
                blurAmount |-> ANIMATION_CONFIG.blurAmounts.medium ]

(***************************************************************************)
(* utils/performance-detection.ts                                          *)
(*                                                                         *)
(* A probe describes what the browser answers to the GPU probe: whether    *)
(* creating the canvas / context throws, whether a WebGL context and the   *)
(* debug extension exist, and the renderer string, given by the set of     *)
(* the searched substrings it contains (<<>> when getParameter yields      *)
(* null, on which renderer.includes throws).                               *)
(***************************************************************************)
RendererTokens == {"Intel", "HD Graphics", "AMD", "Radeon", "NVIDIA",
                   "GeForce", "Apple", "M1", "M2", "M3"}

includes(renderer, token) == token \in renderer

\* result of a call: a returned value or a raised exception
Return(v) == [kind |-> "return", value |-> v]
Throw == [kind |-> "throw", value |-> <<>>]

detectGPUSimpleUnknownDefault(windowDefined, probe) ==
  IF ~windowDefined THEN Return(<<>>)
  ELSE IF probe.throws THEN Return(<<>>)
  ELSE IF ~probe.gl THEN Return(<<>>)
  ELSE IF ~probe.debugInfo THEN Return(<<>>)
  ELSE IF probe.renderer = <<>> THEN Return(<<>>)
  ELSE LET renderer == probe.renderer[1] IN
    IF includes(renderer, "Intel") \/ includes(renderer, "HD Graphics")
      THEN Return(<<1>>)
    ELSE IF includes(renderer, "AMD") \/ includes(renderer, "Radeon")
      THEN Return(<<2>>)
    ELSE IF includes(renderer, "NVIDIA") \/ includes(renderer, "GeForce")
      THEN Return(<<3>>)
    ELSE IF \/ includes(renderer, "Apple") \/ includes(renderer, "M1")
            \/ includes(renderer, "M2") \/ includes(renderer, "M3")
      THEN Return(<<3>>)
    ELSE Return(<<>>)

detectGPUSimple(windowDefined, probe) ==
  IF ~windowDefined THEN Return(<<>>)
  ELSE IF probe.throws THEN Return(<<>>)              \* catch
  ELSE IF ~probe.gl THEN Return(<<>>)
  ELSE IF ~probe.debugInfo THEN Return(<<>>)
  ELSE IF probe.renderer = <<>> THEN Return(<<>>)     \* includes of null: catch
  ELSE LET renderer == probe.renderer[1] IN
    IF includes(renderer, "Intel") \/ includes(renderer, "HD Graphics")
      THEN Return(<<1>>)
    ELSE IF includes(renderer, "AMD") \/ includes(renderer, "Radeon")
      THEN Return(<<2>>)
    ELSE IF includes(renderer, "NVIDIA") \/ includes(renderer, "GeForce")
      THEN Return(<<3>>)
    ELSE IF \/ includes(renderer, "Apple") \/ includes(renderer, "M1")
            \/ includes(renderer, "M2") \/ includes(renderer, "M3")
      THEN Return(<<3>>)
    ELSE Return(<<2>>)

getPerformanceTierHighWithoutGpu(gpuTier, ram, cores) ==
  IF (gpuTier # <<>> /\ gpuTier[1] <= 1) \/ ram <= 4 \/ cores <= 2 THEN "low"
  ELSE IF ram >= 8 /\ cores >= 4 THEN "high"
  ELSE "medium"

getPerformanceTierStrictMemory(gpuTier, ram, cores) ==
  IF (gpuTier # <<>> /\ gpuTier[1] <= 1) \/ ram < 4 \/ cores <= 2 THEN "low"
  ELSE IF gpuTier # <<>> /\ gpuTier[1] >= 3 /\ ram >= 8 /\ cores >= 4
    THEN "high"
  ELSE "medium"

getPerformanceTier(gpuTier, ram, cores) ==
  IF (gpuTier # <<>> /\ gpuTier[1] <= 1) \/ ram <= 4 \/ cores <= 2 THEN "low"
  ELSE IF gpuTier # <<>> /\ gpuTier[1] >= 3 /\ ram >= 8 /\ cores >= 4
    THEN "high"
  ELSE "medium"

OrTwoDefaultsToFour(reading) ==
  IF reading = <<>> \/ reading[1] = 0 THEN 4 ELSE reading[1]

\* x || 2 for a reading that may be absent or 0
OrTwo(reading) == IF reading = <<>> \/ reading[1] = 0 THEN 2 ELSE reading[1]

\* the body of the try block of detectPerformanceTier
detectPerformanceTierTry(env) ==
  IF env.readThrows THEN Throw
  ELSE LET ram   == OrTwo(env.deviceMemory)
           cores == OrTwo(env.hardwareConcurrency)
           gpu   == detectGPUSimple(env.windowDefined, env.probe)
       IN IF gpu.kind = "throw" THEN Throw
          ELSE Return(getPerformanceTier(gpu.value, ram, cores))

detectPerformanceTier(env) ==
  IF ~env.windowDefined \/ ~env.navigatorDefined THEN Return("medium")
  ELSE LET body == detectPerformanceTierTry(env) IN
       IF body.kind = "throw" THEN Return("medium")   \* catch
       ELSE body

(***************************************************************************)
(* Numbers.  Lengths, positions and scales are fixed-point numbers in      *)
(* thousandths; NaN is the result of 0/0.  Rotations are whole degrees.    *)
(***************************************************************************)
Unit == 10 * 10 * 10
NaN == -(Unit * Unit * Unit)

IsNaN(a) == a = NaN
fAdd(a, b) == IF IsNaN(a) \/ IsNaN(b) THEN NaN ELSE a + b
fSub(a, b) == IF IsNaN(a) \/ IsNaN(b) THEN NaN ELSE a - b
\* a * b * n for fixed-point a, b and a whole number n
fProd(a, b, n) == IF IsNaN(a) \/ IsNaN(b) THEN NaN ELSE (a * b * n) \div Unit
\* Math.max / Math.min: NaN if an argument is NaN
fMax(a, b) == IF IsNaN(a) \/ IsNaN(b) THEN NaN ELSE Max(a, b)
fMin(a, b) == IF IsNaN(a) \/ IsNaN(b) THEN NaN ELSE Min(a, b)
fAbs(a) == IF IsNaN(a) THEN NaN ELSE IF a < 0 THEN -a ELSE a
\* a > b, false when an operand is NaN
fGt(a, b) == ~IsNaN(a) /\ ~IsNaN(b) /\ a > b

(***************************************************************************)
(* utils/caching.ts.  A cache is a function from its keys to handles; a    *)
(* handle carries the identity (id) it got when it was constructed.        *)
(***************************************************************************)
EmptyCache == << >>

has(cache, key) == key \in DOMAIN cache

set(cache, key, value) ==
  [k \in DOMAIN cache \cup {key} |-> IF k = key THEN value ELSE cache[k]]

clear(cache) == EmptyCache

(***************************************************************************)
(* utils/canvas-helpers.ts                                                 *)
(***************************************************************************)
\* a control value: undefined, one shared scalar, or a per-blob array
Undefined == [kind |-> "undefined", scalar |-> 0, array |-> <<>>]
Scalar(v) == [kind |-> "scalar", scalar |-> v, array |-> <<>>]
Array(a) == [kind |-> "array", scalar |-> 0, array |-> a]

getPerBlobValueFalsyIsDefault(value, index, defaultValue) ==
  IF value.kind = "undefined" THEN defaultValue
  ELSE IF value.kind = "array" THEN
    IF index + 1 \in DOMAIN value.array /\ value.array[index + 1] # 0
      THEN value.array[index + 1]
    ELSE defaultValue
  ELSE value.scalar

\* index is 0-based as in the source
getPerBlobValue(value, index, defaultValue) ==
  IF value.kind = "undefined" THEN defaultValue
  ELSE IF value.kind = "array" THEN
    IF index + 1 \in DOMAIN value.array THEN value.array[index + 1]
    ELSE defaultValue
  ELSE value.scalar

blobScaleDividesByCount(i, count) ==
  ANIMATION_CONFIG.scaleRange.min
  + ((count - i) * (ANIMATION_CONFIG.scaleRange.max
                      - ANIMATION_CONFIG.scaleRange.min)) \div count

\* scaleRange.min + (1 - i / (count - 1)) * (scaleRange.max - scaleRange.min)
blobScale(i, count) ==
  IF count = 1 THEN NaN      \* i / (count - 1) is 0 / 0
  ELSE ANIMATION_CONFIG.scaleRange.min
       + ((count - 1 - i) * (ANIMATION_CONFIG.scaleRange.max
                               - ANIMATION_CONFIG.scaleRange.min))
           \div (count - 1)

\* the Shape Template Table (constants/blob-paths.ts): two outlines
BLOB_PATHS == <<"blobPathA", "blobPathB">>

\* the j-th value of Math.random(), in thousandths, of the stream random
randomDraw(random, j) == random[((j - 1) % Len(random)) + 1]

getPathAlwaysConstructs(m, rawPath) ==
  [m EXCEPT !.path2DPool = set(@, rawPath,
                               [rawPath |-> rawPath, id |-> m.nextId]),
            !.nextId = @ + 1]

\* Path2DPool.getPath on the pool of the heap m; the handle is then
\* m.path2DPool[rawPath].  m.nextId is the identity of the next new object.
getPath(m, rawPath) ==
  IF has(m.path2DPool, rawPath) THEN m
  ELSE [m EXCEPT !.path2DPool = set(@, rawPath,
                                    [rawPath |-> rawPath, id |-> m.nextId]),
                 !.nextId = @ + 1]

\* The heap m carries the Path2DPool (m.path2DPool) and the source of fresh
\* object identities (m.nextId).  random is the stream of the values
\* Math.random() returns during the call, two per blob.
RECURSIVE generateBlobsFrom(_, _, _, _, _)
generateBlobsFrom(i, count, m, blobs, random) ==
  IF i >= count THEN [m EXCEPT !.blobs = blobs]
  ELSE
    LET rawPath == BLOB_PATHS[((randomDraw(random, 2 * i + 1)
                                  * Len(BLOB_PATHS)) \div Unit) + 1]
        randomRotation == (randomDraw(random, 2 * i + 2) * 360) \div Unit
        m1      == getPath(m, rawPath)
        blob    == [path     |-> m1.path2DPool[rawPath],
                    rotation |-> getPerBlobValue(Undefined, i, randomRotation),
                    scale    |-> blobScale(i, count)]
    IN generateBlobsFrom(i + 1, count, m1, Append(blobs, blob), random)

generateBlobs(count, m, random) ==
  generateBlobsFrom(0, count, m, <<>>, random)

(***************************************************************************)
(* utils/dirty-regions.ts                                                  *)
(***************************************************************************)
calculateBlobBoundsSizeAsSide(blob, position, scale, canvasWidth, canvasHeight) ==
  LET padding   == ANIMATION_CONFIG.dirtyRegion.padding * Unit
      size      == fMax(fProd(blob.scale, scale,
                              ANIMATION_CONFIG.dirtyRegion.blobSizeMultiplier),
                        ANIMATION_CONFIG.dirtyRegion.minBlobSize * Unit)
      totalSize == fAdd(size, 2 * padding)
      x         == fMax(0, fSub(fSub(position.x, size \div 2), padding))
      y         == fMax(0, fSub(fSub(position.y, size \div 2), padding))
  IN [ x |-> x, y |-> y,
       width  |-> fMin(totalSize, fSub(canvasWidth, x)),
       height |-> fMin(totalSize, fSub(canvasHeight, y)) ]

calculateBlobBounds(blob, position, scale, canvasWidth, canvasHeight) ==
  LET padding   == ANIMATION_CONFIG.dirtyRegion.padding * Unit
      size      == fMax(fProd(blob.scale, scale,
                              ANIMATION_CONFIG.dirtyRegion.blobSizeMultiplier),
                        ANIMATION_CONFIG.dirtyRegion.minBlobSize * Unit)
      totalSize == fAdd(fAdd(size, size), 2 * padding)
      x         == fMax(0, fSub(fSub(position.x, size), padding))
      y         == fMax(0, fSub(fSub(position.y, size), padding))
  IN [ x |-> x, y |-> y,
       width  |-> fMin(totalSize, fSub(canvasWidth, x)),
       height |-> fMin(totalSize, fSub(canvasHeight, y)) ]

unionRegionKeepsExisting(region, existing) == existing

unionRegionAddsSizes(region, existing) ==
  [ x |-> fMin(region.x, existing.x),
    y |-> fMin(region.y, existing.y),
    width  |-> fAdd(region.width, existing.width),
    height |-> fAdd(region.height, existing.height) ]

\* the bounding union written to merged[i]
unionRegion(region, existing) ==
  [ x |-> fMin(region.x, existing.x),
    y |-> fMin(region.y, existing.y),
    width  |-> fSub(fMax(fAdd(region.x, region.width),
                         fAdd(existing.x, existing.width)),
                    fMin(region.x, existing.x)),
    height |-> fSub(fMax(fAdd(region.y, region.height),
                         fAdd(existing.y, existing.height)),
                    fMin(region.y, existing.y)) ]

overlapsSignificantlyOfBoth(region, existing) ==
  LET overlapX == fMax(0, fSub(fMin(fAdd(region.x, region.width),
                                    fAdd(existing.x, existing.width)),
                               fMax(region.x, existing.x)))
      overlapY == fMax(0, fSub(fMin(fAdd(region.y, region.height),
                                    fAdd(existing.y, existing.height)),
                               fMax(region.y, existing.y)))
  IN /\ 2 * overlapX * overlapY > region.width * region.height
     /\ 2 * overlapX * overlapY > existing.width * existing.height

\* the test of the inner loop: overlap above 50% of either area
overlapsSignificantly(region, existing) ==
  LET overlapX == fMax(0, fSub(fMin(fAdd(region.x, region.width),
                                    fAdd(existing.x, existing.width)),
                               fMax(region.x, existing.x)))
      overlapY == fMax(0, fSub(fMin(fAdd(region.y, region.height),
                                    fAdd(existing.y, existing.height)),
                               fMax(region.y, existing.y)))
      overlapArea  == IF IsNaN(overlapX) \/ IsNaN(overlapY) THEN NaN
                      ELSE overlapX * overlapY
      regionArea   == IF IsNaN(region.width) \/ IsNaN(region.height) THEN NaN
                      ELSE region.width * region.height
      existingArea == IF IsNaN(existing.width) \/ IsNaN(existing.height)
                      THEN NaN ELSE existing.width * existing.height
  IN \/ ~IsNaN(overlapArea) /\ ~IsNaN(regionArea)
        /\ 2 * overlapArea > regionArea
     \/ ~IsNaN(overlapArea) /\ ~IsNaN(existingArea)
        /\ 2 * overlapArea > existingArea

\* index of the first entry of merged the region merges with, 0 if none
RECURSIVE firstMergeable(_, _, _)
firstMergeable(region, merged, i) ==
  IF i > Len(merged) THEN 0
  ELSE IF overlapsSignificantly(region, merged[i]) THEN i
  ELSE firstMergeable(region, merged, i + 1)

RECURSIVE mergeInto(_, _)
mergeInto(regions, merged) ==
  IF regions = <<>> THEN merged
  ELSE LET region == Head(regions)
           i      == firstMergeable(region, merged, 1)
       IN mergeInto(Tail(regions),
                    IF i = 0 THEN Append(merged, region)
                    ELSE [merged EXCEPT ![i] = unionRegion(region, merged[i])])

mergeDirtyRegions(regions) ==
  IF Len(regions) <= 1 THEN regions ELSE mergeInto(regions, <<>>)

(***************************************************************************)
(* utils/color-helpers.ts.  The string `hsl(h, s%, l%)` is the tuple       *)
(* <<"hsl", h, s, l>>; the cache key `h,s,l` is the tuple <<h, s, l>>.     *)
(***************************************************************************)
hslToString(hsl, m) ==
  LET key == <<hsl.h, hsl.s, hsl.l>> IN
  IF has(m.colorCache, key)
    THEN [m |-> m, value |-> m.colorCache[key]]
    ELSE [m |-> [m EXCEPT !.colorCache =
                            set(@, key, <<"hsl", hsl.h, hsl.s, hsl.l>>)],
          value |-> <<"hsl", hsl.h, hsl.s, hsl.l>>]

getGradientColors(colorPair, m) ==
  LET a == hslToString(colorPair[1], m)
      b == hslToString(colorPair[2], a.m)
  IN [m |-> b.m, value |-> [a |-> a.value, b |-> b.value]]

(***************************************************************************)
(* The frame callback `render` of the render effect.                       *)
(*                                                                         *)
(* m is the heap: the refs of the component, the three caches and the      *)
(* browser's queues.  m.loops[l] is the closure of the l-th run of the     *)
(* effect's setup: the adaptiveFrameRate, qualitySettings,                 *)
(* canvasBlurSupported and renderSize it captured and its offscreen        *)
(* surface, which is named by l.                                           *)
(***************************************************************************)
\* timeSinceLastFrame < 1000 / adaptiveFrameRate
belowTargetFrameTime(timeSinceLastFrame, adaptiveFrameRate) ==
  IF adaptiveFrameRate > 0 THEN timeSinceLastFrame * adaptiveFrameRate < 1000
  ELSE IF adaptiveFrameRate = 0 THEN TRUE          \* target is Infinity
  ELSE timeSinceLastFrame * adaptiveFrameRate > 1000

\* per-blob values read from the refs for blob i (0-based)
blobFrameState(m, i, renderWidth, renderHeight) ==
  LET blob == m.blobs[i + 1]
      blobXValue == getPerBlobValue(m.blobXRef, i, 500)
      blobYValue == getPerBlobValue(m.blobYRef, i, 500)
      blobRotationValue == getPerBlobValue(m.blobRotationsRef, i, blob.rotation)
  IN [ position |-> [x |-> blobXValue * renderWidth,
                     y |-> blobYValue * renderHeight],
       rotation |-> blobRotationValue,
       scale    |-> blob.scale ]

\* the dirty regions blob i contributes against its previous state
blobDirtyRegionsInclusive(blob, prevState, currentState, renderWidth, renderHeight) ==
  LET rotationChanged ==
        ~fGt(ANIMATION_CONFIG.dirtyRegion.rotationThresholdDegrees,
             fAbs(currentState.rotation - prevState.rotation))
      positionChanged ==
        \/ ~fGt(ANIMATION_CONFIG.dirtyRegion.positionThresholdPixels * Unit,
                fAbs(currentState.position.x - prevState.position.x))
        \/ ~fGt(ANIMATION_CONFIG.dirtyRegion.positionThresholdPixels * Unit,
                fAbs(currentState.position.y - prevState.position.y))
  IN IF rotationChanged \/ positionChanged
     THEN << calculateBlobBounds(blob, prevState.position, prevState.scale,
                                 renderWidth * Unit, renderHeight * Unit),
             calculateBlobBounds(blob, currentState.position,
                                 currentState.scale,
                                 renderWidth * Unit, renderHeight * Unit) >>
     ELSE <<>>

blobDirtyRegions(blob, prevState, currentState, renderWidth, renderHeight) ==
  LET rotationChanged ==
        fGt(fAbs(currentState.rotation - prevState.rotation),
            ANIMATION_CONFIG.dirtyRegion.rotationThresholdDegrees)
      positionChanged ==
        \/ fGt(fAbs(currentState.position.x - prevState.position.x),
               ANIMATION_CONFIG.dirtyRegion.positionThresholdPixels * Unit)
        \/ fGt(fAbs(currentState.position.y - prevState.position.y),
               ANIMATION_CONFIG.dirtyRegion.positionThresholdPixels * Unit)
  IN IF rotationChanged \/ positionChanged
     THEN << calculateBlobBounds(blob, prevState.position, prevState.scale,
                                 renderWidth * Unit, renderHeight * Unit),
             calculateBlobBounds(blob, currentState.position,
                                 currentState.scale,
                                 renderWidth * Unit, renderHeight * Unit) >>
     ELSE <<>>

\* the loop of the dirty-region pass, from blob i on; acc collects the
\* current states and the dirty regions, m.blobs gets the rotations
RECURSIVE dirtyRegionPass(_, _, _, _, _)
dirtyRegionPass(m, i, acc, renderWidth, renderHeight) ==
  IF i >= Len(m.blobs) THEN [m |-> m, acc |-> acc]
  ELSE
    LET currentState == blobFrameState(m, i, renderWidth, renderHeight)
        m1   == [m EXCEPT !.blobs[i + 1].rotation = currentState.rotation]
        blob == m1.blobs[i + 1]
        regions ==
          IF i + 1 \in DOMAIN m.previousBlobStates
            THEN blobDirtyRegions(blob, m.previousBlobStates[i + 1],
                                  currentState, renderWidth, renderHeight)
            ELSE <<>>
    IN dirtyRegionPass(m1, i + 1,
         [currentBlobStates |-> Append(acc.currentBlobStates, currentState),
          dirtyRegions      |-> acc.dirtyRegions \o regions],
         renderWidth, renderHeight)

setCanvasKeepsEntries(m, canvas) ==
  [m EXCEPT !.gradientCanvas = canvas]

\* GradientCache.setCanvas: this.canvas = canvas; this.clear()
setCanvas(m, canvas) ==
  [m EXCEPT !.gradientCanvas = canvas, !.gradientCache = clear(@)]

\* gradientCacheRef.current.getGradient(gradientKey, createFn) by loop l
getGradient(m, l, gradientKey) ==
  IF has(m.gradientCache, gradientKey) THEN m
  ELSE [m EXCEPT !.gradientCache =
                    set(@, gradientKey,
                        [surface |-> l, a |-> gradientKey[1],
                         b |-> gradientKey[2], id |-> m.nextId]),
                 !.nextId = @ + 1]

\* the blob preparation loop, from blob i on; data collects blobRenderData
RECURSIVE prepareBlobs(_, _, _, _)
prepareBlobsOneTry(m, l, i, data) ==
  IF i >= Len(m.blobs) THEN [m |-> m, blobRenderData |-> data]
  ELSE
    LET c  == m.loops[l]
        st == blobFrameState(m, i, c.renderSize, c.renderSize)
        m1 == [m EXCEPT !.blobs[i + 1].rotation = st.rotation]
        gradientKey == <<m.blobColorsRef.a, m.blobColorsRef.b, c.renderSize>>
        \* createFn is called and throws: cache.set is not reached
        createThrows == ~has(m1.gradientCache, gradientKey)
                        /\ m1.createFails > 0
        m2 == getGradient(m1, l, gradientKey)
    IN IF createThrows
         \* one try around the whole loop
         THEN [m |-> [m1 EXCEPT !.createFails = @ - 1,
                                !.preparationErrors = Append(@, i)],
               blobRenderData |-> data]
         ELSE prepareBlobs(m2, l, i + 1,
                Append(data, [blob     |-> i,
                              rotation |-> st.rotation,
                              gradient |-> m2.gradientCache[gradientKey],
                              scale    |-> m1.blobs[i + 1].scale,
                              position |-> st.position]))

prepareBlobs(m, l, i, data) ==
  IF i >= Len(m.blobs) THEN [m |-> m, blobRenderData |-> data]
  ELSE
    LET c  == m.loops[l]
        st == blobFrameState(m, i, c.renderSize, c.renderSize)
        m1 == [m EXCEPT !.blobs[i + 1].rotation = st.rotation]
        gradientKey == <<m.blobColorsRef.a, m.blobColorsRef.b, c.renderSize>>
        \* createFn is called and throws: cache.set is not reached
        createThrows == ~has(m1.gradientCache, gradientKey)
                        /\ m1.createFails > 0
        m2 == getGradient(m1, l, gradientKey)
    IN IF createThrows
         \* catch (error): console.error, then the next blob
         THEN prepareBlobs([m1 EXCEPT !.createFails = @ - 1,
                                      !.preparationErrors = Append(@, i)],
                           l, i + 1, data)
         ELSE prepareBlobs(m2, l, i + 1,
                Append(data, [blob     |-> i,
                              rotation |-> st.rotation,
                              gradient |-> m2.gradientCache[gradientKey],
                              scale    |-> m1.blobs[i + 1].scale,
                              position |-> st.position]))

NoDraw == [loop |-> 0, time |-> 0, prevTime |-> -1, frameRate |-> 0,
           fullClear |-> <<>>, dirtyRegions |-> <<>>, cleared |-> <<>>,
           filter |-> [blur |-> FALSE, px |-> 0], drawn |-> <<>>,
           errors |-> <<>>, prevErrors |-> <<>>]

\* the body of render below the frame-rate limit: one executed draw body.
\* resolvedFrameRate is the frameRate of the component's qualitySettings at
\* this moment; it is only recorded.
drawBody(m, l, currentTime, resolvedFrameRate) ==
  LET c  == m.loops[l]
      renderWidth  == c.renderSize
      renderHeight == c.renderSize
      m1 == [m EXCEPT !.lastFrameTime = currentTime]
      none == [currentBlobStates |-> <<>>, dirtyRegions |-> <<>>]
      pass == IF ~m1.isFirstFrame
                THEN dirtyRegionPass(m1, 0, none, renderWidth, renderHeight)
                ELSE [m |-> [m1 EXCEPT !.isFirstFrame = FALSE], acc |-> none]
      \* offCtx.clearRect(0, 0, renderWidth, renderHeight) of the else branch
      fullClear == IF ~m1.isFirstFrame THEN <<>>
                   ELSE << [x |-> 0, y |-> 0, width |-> renderWidth * Unit,
                            height |-> renderHeight * Unit] >>
      dirtyRegions  == pass.acc.dirtyRegions
      mergedRegions == IF Len(dirtyRegions) > 0
                         THEN mergeDirtyRegions(dirtyRegions) ELSE <<>>
      filter == IF c.canvasBlurSupported
                  THEN [blur |-> TRUE, px |-> c.blurAmount]
                  ELSE [blur |-> FALSE, px |-> 0]
      prep == prepareBlobs(pass.m, l, 0, <<>>)
      m2 == IF Len(pass.acc.currentBlobStates) > 0
              THEN [prep.m EXCEPT !.previousBlobStates =
                                     pass.acc.currentBlobStates]
              ELSE prep.m
  IN [m2 EXCEPT
        !.rafQueue = Append(@, l),
        !.drawsSinceGeneration = Min(@ + 1, 2),
        !.lastCall = [loop |-> l, time |-> currentTime, drew |-> TRUE],
        !.lastDraw = [loop |-> l, time |-> currentTime,
                      prevTime |-> IF m.lastDraw.loop = 0 THEN -1
                                   ELSE m.lastDraw.time,
                      frameRate |-> resolvedFrameRate,
                      fullClear |-> fullClear,
                      dirtyRegions |-> dirtyRegions,
                      cleared |-> mergedRegions,
                      filter |-> filter,
                      drawn |-> prep.blobRenderData,
                      errors |-> prep.m.preparationErrors,
                      prevErrors |-> m.lastDraw.errors]]

renderSkipDropsCallback(m, l, currentTime, resolvedFrameRate) ==
  IF belowTargetFrameTime(currentTime - m.lastFrameTime,
                          m.loops[l].adaptiveFrameRate)
    THEN [m EXCEPT !.lastCall = [loop |-> l, time |-> currentTime,
                                 drew |-> FALSE]]
    ELSE drawBody(m, l, currentTime, resolvedFrameRate)

render(m, l, currentTime, resolvedFrameRate) ==
  IF belowTargetFrameTime(currentTime - m.lastFrameTime,
                          m.loops[l].adaptiveFrameRate)
    THEN [m EXCEPT !.rafQueue = Append(@, l),      \* requestAnimationFrame
                   !.lastCall = [loop |-> l, time |-> currentTime,
                                 drew |-> FALSE]]
    ELSE drawBody(m, l, currentTime, resolvedFrameRate)

(***************************************************************************)
(* The effects of the component, in the order of their declaration.        *)
(***************************************************************************)
\* clearTimeout(debouncedResize.current): the ref names the timer that was
\* set last, which is the last of the pending timers unless it has fired
clearTimeout(timers, current) ==
  IF current /\ timers # <<>> THEN SubSeq(timers, 1, Len(timers) - 1) ELSE timers

handleResizeKeepsTimer(m, now) ==
  [m EXCEPT !.debouncedResize = TRUE,
            !.resizeTimer =
               Append(@, now + ANIMATION_CONFIG.resizeDebounceDelayMs)]

handleResize(m, now) ==
  [m EXCEPT !.debouncedResize = TRUE,
            \* clearTimeout of the pending timer, then setTimeout
            !.resizeTimer =
               Append(clearTimeout(@, m.debouncedResize),
                      now + ANIMATION_CONFIG.resizeDebounceDelayMs)]

\* the callback of the debounce timer that is due first
resizeTimeout(m) ==
  [m EXCEPT !.resizeTimer = Tail(@), !.canvasSize = m.windowSize]

refEffectsSkipsBlobX(m, props) ==
  [m EXCEPT !.blobYRef = props.blobY,
            !.blobRotationsRef = props.blobRotations]

\* blobXRef / blobYRef / blobRotationsRef effects
refEffects(m, props) ==
  [m EXCEPT !.blobXRef = props.blobX, !.blobYRef = props.blobY,
            !.blobRotationsRef = props.blobRotations]

\* the detectTier effect: starts a detection unless the tier is overridden
detectTierEffect(m, props) ==
  IF props.performanceTierProp # <<>>
    THEN [m EXCEPT !.nextState.loading = FALSE]
    ELSE [m EXCEPT !.inflight = @ + 1]

\* the continuation of detectTier after `await detectPerformanceTier()`
detectTierResolved(m, result) ==
  IF result.kind = "return"
    THEN [m EXCEPT !.nextState.detectedPerformanceTier = <<result.value>>,
                   !.nextState.loading = FALSE,
                   !.inflight = @ - 1]
    ELSE [m EXCEPT !.nextState.detectedPerformanceTier = <<"medium">>,
                   !.nextState.loading = FALSE,
                   !.inflight = @ - 1,
                   !.errorsReported = @ + 1]

adaptiveFrameRateEffect(m, qs) ==
  [m EXCEPT !.nextState.adaptiveFrameRate = qs.frameRate]

blobGenerationEffectKeepsFlag(m, qs, random) ==
  [generateBlobs(qs.blobCount, m, random)
     EXCEPT !.previousBlobStates = <<>>,
            !.drawsSinceGeneration = 0]

blobGenerationEffect(m, qs, random) ==
  [generateBlobs(qs.blobCount, m, random)
     EXCEPT !.previousBlobStates = <<>>,
            !.isFirstFrame = TRUE,
            !.drawsSinceGeneration = 0]

colorEffectKeepsFlag(m, props) ==
  LET colors == getGradientColors(props.colorPair, m) IN
  [colors.m EXCEPT !.blobColorsRef = colors.value]

colorEffect(m, props) ==
  LET colors == getGradientColors(props.colorPair, m) IN
  [colors.m EXCEPT !.blobColorsRef = colors.value, !.isFirstFrame = TRUE]

blurDetectionEffect(m, blurWorks) ==
  [m EXCEPT !.nextState.canvasBlurSupported = blurWorks]

\* Setup of the render effect.  surface tells which of the visible canvas,
\* its 2D context and the offscreen 2D context could be obtained.
renderEffectSetupListensFirst(m, surface, qs, st, renderSize, now) ==
  IF surface # "ok"
    THEN [handleResize([m EXCEPT !.resizeListener = TRUE], now)
            EXCEPT !.starts = Append(@, [ok |-> FALSE, loop |-> 0])]
    ELSE
      LET l  == Len(m.loops) + 1
          m1 == [m EXCEPT
                   !.gradientCache = clear(@),
                   !.gradientCanvas = l,
                   !.loops = Append(@, [adaptiveFrameRate |-> st.adaptiveFrameRate,
                                        blurAmount |-> qs.blurAmount,
                                        canvasBlurSupported |-> st.canvasBlurSupported,
                                        renderSize |-> renderSize]),
                   !.resizeListener = TRUE,
                   !.starts = Append(@, [ok |-> TRUE, loop |-> l]),
                   !.activeLoop = l]
      IN render(handleResize(m1, now), l, now, qs.frameRate)

renderEffectSetup(m, surface, qs, st, renderSize, now) ==
  IF surface # "ok"
    THEN [m EXCEPT !.starts = Append(@, [ok |-> FALSE, loop |-> 0])]
    ELSE
      LET l  == Len(m.loops) + 1
          \* gradientCacheRef.current.setCanvas(offscreen)
          m1 == [setCanvas(m, l) EXCEPT
                   !.loops = Append(@, [adaptiveFrameRate |-> st.adaptiveFrameRate,
                                        blurAmount |-> qs.blurAmount,
                                        canvasBlurSupported |-> st.canvasBlurSupported,
                                        renderSize |-> renderSize]),
                   \* window.addEventListener("resize", handleResize)
                   !.resizeListener = TRUE,
                   !.starts = Append(@, [ok |-> TRUE, loop |-> l]),
                   !.activeLoop = l]
      IN render(handleResize(m1, now), l, now, qs.frameRate)

\* Cleanup of the render effect; it exists only when the setup got past
\* its early returns (m.activeLoop # 0).
renderEffectCleanup(m) ==
  IF m.activeLoop = 0 THEN m
  ELSE [m EXCEPT !.resizeListener = FALSE,
                 !.resizeTimer = clearTimeout(@, m.debouncedResize),
                 !.path2DPool = clear(@),
                 !.gradientCache = clear(@),
                 !.colorCache = clear(@),
                 !.activeLoop = 0]

(***************************************************************************)
(* One React render of the component followed by its effects.              *)
(***************************************************************************)
tierOf(props, st) ==
  performanceTier(props.performanceTierProp, st.detectedPerformanceTier)

settingsOf(props, st) ==
  qualitySettings(props.qualitySettingsProp, st.loading, tierOf(props, st),
                  props.numBlobs)

\* useMemo recomputes qualitySettings: a dependency changed
\* ([loading, performanceTier, numBlobs, qualitySettingsProp])
memoRecomputed(oldP, newP, oldS, newS, isMount, qualityIdentityChanged) ==
  \/ isMount
  \/ oldS.loading # newS.loading
  \/ tierOf(oldP, oldS) # tierOf(newP, newS)
  \/ oldP.numBlobs # newP.numBlobs
  \/ qualityIdentityChanged

\* dependencies of the blob generation effect: [qualitySettings.blobCount]
generationRunsOnColors(oldP, newP, oldS, newS, isMount) ==
  \/ isMount \/ oldP.colorPair # newP.colorPair
  \/ settingsOf(oldP, oldS).blobCount # settingsOf(newP, newS).blobCount

generationRuns(oldP, newP, oldS, newS, isMount) ==
  isMount \/ settingsOf(oldP, oldS).blobCount # settingsOf(newP, newS).blobCount

\* dependencies of the render effect: [qualitySettings, adaptiveFrameRate,
\* canvasBlurSupported, handleResize, renderSize]
renderEffectRuns(oldP, newP, oldS, newS, isMount, qualityIdentityChanged) ==
  \/ memoRecomputed(oldP, newP, oldS, newS, isMount, qualityIdentityChanged)
  \/ oldS.adaptiveFrameRate # newS.adaptiveFrameRate
  \/ oldS.canvasBlurSupported # newS.canvasBlurSupported
  \/ oldP.renderSize # newP.renderSize

\* ch holds what the environment decides during the effects: the random
\* draws of generateBlobs, whether blur works, which surfaces are available
commit(m, oldP, newP, oldS, newS, isMount, qualityIdentityChanged, now, ch) ==
  LET \* useEffect: the effect runs on heap h when its dependencies changed
      useEffect(changed, effect(_), h) == IF changed THEN effect(h) ELSE h
      qs == settingsOf(newP, newS)
      runRender == renderEffectRuns(oldP, newP, oldS, newS, isMount,
                                    qualityIdentityChanged)
      \* cleanups of the effects that re-run come before all setups
      m0 == useEffect(runRender /\ ~isMount, renderEffectCleanup, m)
      m1 == refEffects(m0, newP)
      \* dependencies of the detectTier effect: [performanceTierProp, onError]
      m2 == useEffect(\/ isMount
                      \/ oldP.performanceTierProp # newP.performanceTierProp
                      \/ oldP.onError # newP.onError,
                      LAMBDA x : detectTierEffect(x, newP), m1)
      m3 == useEffect(isMount \/ settingsOf(oldP, oldS).frameRate # qs.frameRate,
                      LAMBDA x : adaptiveFrameRateEffect(x, qs), m2)
      m4 == useEffect(generationRuns(oldP, newP, oldS, newS, isMount),
                      LAMBDA x : blobGenerationEffect(x, qs, ch.random), m3)
      m5 == useEffect(isMount \/ oldP.colorPair # newP.colorPair,
                      LAMBDA x : colorEffect(x, newP), m4)
      m6 == useEffect(isMount,
                      LAMBDA x : blurDetectionEffect(x, ch.blurWorks), m5)
  IN useEffect(runRender,
               LAMBDA x : renderEffectSetup(x, ch.surface, qs, newS,
                                            newP.renderSize, now),
               m6)

(***************************************************************************)
(* State.                                                                  *)
(***************************************************************************)
VARIABLES
  phase,               \* "idle", "mounted" or "unmounted"
  props,               \* props of the last render
  state,               \* React state of the last render
  nextState,           \* React state with the queued updates applied
  hw,                  \* what the browser reports about the hardware
  now,                 \* performance.now()
  frameRun,            \* callbacks of the animation frame being run
  rafQueue,            \* callbacks requested for the next animation frame
  loops,               \* closures of the runs of the render effect's setup
  activeLoop,          \* run whose cleanup is registered, 0 if none
  starts,              \* outcome of every run of the setup
  hostUpdates,         \* number of host re-renders so far
  inflight,            \* detections started and not resolved
  errorsReported,      \* calls of onError
  blobs, blobColorsRef, lastFrameTime, previousBlobStates, isFirstFrame,
  blobXRef, blobYRef, blobRotationsRef,
  debouncedResize,     \* debouncedResize.current is not null
  resizeTimer,         \* due times of the pending debounce timers
  resizeListener,      \* handleResize is registered on window
  canvasSize, windowSize,
  path2DPool, gradientCache, gradientCanvas, colorCache,
  nextId,              \* identity of the next constructed object
  lastDraw,            \* the most recent executed draw body
  lastCall,            \* the most recent call of render
  drawsSinceGeneration,\* draw bodies since the population was generated
  fnIn, fnOut          \* argument and result of a function under test

heapVars == << rafQueue, loops, activeLoop, starts, inflight, errorsReported,
               blobs, blobColorsRef, lastFrameTime, previousBlobStates,
               isFirstFrame, blobXRef, blobYRef, blobRotationsRef,
               debouncedResize, resizeTimer, resizeListener, canvasSize,
               windowSize, path2DPool, gradientCache, gradientCanvas,
               colorCache, nextId, lastDraw, lastCall, drawsSinceGeneration,
               nextState >>

engineVars == << phase, props, state, hw, now, frameRun, hostUpdates,
                 heapVars >>

vars == << engineVars, fnIn, fnOut >>

Heap ==
  [ rafQueue |-> rafQueue, loops |-> loops, activeLoop |-> activeLoop,
    starts |-> starts, inflight |-> inflight,
    errorsReported |-> errorsReported, blobs |-> blobs,
    blobColorsRef |-> blobColorsRef, lastFrameTime |-> lastFrameTime,
    previousBlobStates |-> previousBlobStates, isFirstFrame |-> isFirstFrame,
    blobXRef |-> blobXRef, blobYRef |-> blobYRef,
    blobRotationsRef |-> blobRotationsRef,
    debouncedResize |-> debouncedResize, resizeTimer |-> resizeTimer,
    resizeListener |-> resizeListener, canvasSize |-> canvasSize,
    windowSize |-> windowSize, path2DPool |-> path2DPool,
    gradientCache |-> gradientCache, gradientCanvas |-> gradientCanvas,
    colorCache |-> colorCache, nextId |-> nextId, lastDraw |-> lastDraw,
    lastCall |-> lastCall, drawsSinceGeneration |-> drawsSinceGeneration,
    nextState |-> nextState,
    \* how many of the next gradient creations throw; set by the caller
    createFails |-> 0,
    \* the blobs whose preparation was caught and logged in this frame
    preparationErrors |-> <<>> ]

Store(m) ==
  /\ rafQueue' = m.rafQueue /\ loops' = m.loops
  /\ activeLoop' = m.activeLoop /\ starts' = m.starts
  /\ inflight' = m.inflight /\ errorsReported' = m.errorsReported
  /\ blobs' = m.blobs /\ blobColorsRef' = m.blobColorsRef
  /\ lastFrameTime' = m.lastFrameTime
  /\ previousBlobStates' = m.previousBlobStates
  /\ isFirstFrame' = m.isFirstFrame
  /\ blobXRef' = m.blobXRef /\ blobYRef' = m.blobYRef
  /\ blobRotationsRef' = m.blobRotationsRef
  /\ debouncedResize' = m.debouncedResize /\ resizeTimer' = m.resizeTimer
  /\ resizeListener' = m.resizeListener /\ canvasSize' = m.canvasSize
  /\ windowSize' = m.windowSize /\ path2DPool' = m.path2DPool
  /\ gradientCache' = m.gradientCache /\ gradientCanvas' = m.gradientCanvas
  /\ colorCache' = m.colorCache /\ nextId' = m.nextId
  /\ lastDraw' = m.lastDraw /\ lastCall' = m.lastCall
  /\ drawsSinceGeneration' = m.drawsSinceGeneration
  /\ nextState' = m.nextState

(***************************************************************************)
(* Inputs of the engine.                                                   *)
(***************************************************************************)
\* streams of Math.random() values, in thousandths
RandomStreams == { <<0, 0, 0, 0>>, <<500, 250, 0, 500>> }

Override(blobCount, frameRate, blurAmount) ==
  [blobCount |-> blobCount, frameRate |-> frameRate, blurAmount |-> blurAmount]

EngineNumBlobs == {1, 2}
EngineTierProps == {<<>>, <<"high">>}
EngineQualities == { <<>>, <<Override(<<>>, <<60>>, <<>>)>> }
EngineBlobX == {Scalar(500), Scalar(750)}
EngineRotations == {Undefined, Scalar(45)}
\* the onError callbacks the host may pass: two function objects
EngineOnError == {"onErrorA", "onErrorB"}
EngineColorPair == << [h |-> 0, s |-> 50, l |-> 50],
                      [h |-> 180, s |-> 50, l |-> 50] >>

Probe(throws, gl, debugInfo, renderer) ==
  [throws |-> throws, gl |-> gl, debugInfo |-> debugInfo, renderer |-> renderer]

Hardware(windowDefined, navigatorDefined, readThrows, ram, cores, probe) ==
  [windowDefined |-> windowDefined, navigatorDefined |-> navigatorDefined,
   readThrows |-> readThrows, deviceMemory |-> ram,
   hardwareConcurrency |-> cores, probe |-> probe]

\* a laptop without readings and a desktop with a high-end graphics card
EngineHardware ==
  { Hardware(TRUE, TRUE, FALSE, <<>>, <<>>, Probe(FALSE, FALSE, FALSE, <<>>)),
    Hardware(TRUE, TRUE, FALSE, <<8>>, <<8>>,
             Probe(FALSE, TRUE, TRUE, <<{"NVIDIA", "GeForce"}>>)) }

\* which of the drawing surfaces the setup of the render effect obtains
Surfaces == {"ok", "noCanvas", "noContext", "noOffscreenContext"}

\* useState initial values of the first render
initialState(p) ==
  [ detectedPerformanceTier |-> <<>>,
    loading |-> TRUE,
    adaptiveFrameRate |->
      qualitySettings(p.qualitySettingsProp, TRUE,
                      performanceTier(p.performanceTierProp, <<>>),
                      p.numBlobs).frameRate,
    canvasBlurSupported |-> TRUE ]

\* props of the first render
EngineProps ==
  [ numBlobs : {2},
    renderSize : {ANIMATION_CONFIG.renderSize},
    colorPair : {EngineColorPair},
    blobX : {Scalar(500)}, blobY : {Scalar(500)},
    blobRotations : {Undefined},
    onError : {"onErrorA"},
    performanceTierProp : EngineTierProps,
    qualitySettingsProp : EngineQualities ]

\* the component before its first render, for given props
Unmounted ==
  /\ phase = "idle"
  /\ state = initialState(props)
  /\ nextState = state
  /\ now = 0
  /\ frameRun = <<>> /\ rafQueue = <<>> /\ loops = <<>>
  /\ activeLoop = 0 /\ starts = <<>> /\ hostUpdates = 0
  /\ inflight = 0 /\ errorsReported = 0
  /\ blobs = <<>> /\ blobColorsRef = [a |-> <<>>, b |-> <<>>]
  /\ lastFrameTime = 0 /\ previousBlobStates = <<>> /\ isFirstFrame = TRUE
  /\ blobXRef = props.blobX /\ blobYRef = props.blobY
  /\ blobRotationsRef = props.blobRotations
  /\ debouncedResize = FALSE /\ resizeTimer = <<>> /\ resizeListener = FALSE
  /\ canvasSize = 0 /\ windowSize = 1
  /\ path2DPool = EmptyCache /\ gradientCache = EmptyCache
  /\ gradientCanvas = 0 /\ colorCache = EmptyCache
  /\ nextId = 1
  /\ lastDraw = NoDraw
  /\ lastCall = [loop |-> 0, time |-> 0, drew |-> FALSE]
  /\ drawsSinceGeneration = 0

Init ==
  /\ props \in EngineProps
  /\ hw \in EngineHardware
  /\ Unmounted
  /\ fnIn = <<>> /\ fnOut = <<>>

(***************************************************************************)
(* Actions of the engine.                                                  *)
(***************************************************************************)
\* a render of the component with props newP and the queued state updates,
\* followed by its effects
Commit(newP, newS, isMount, qualityIdentityChanged) ==
  LET runRender == renderEffectRuns(props, newP, state, newS, isMount,
                                    qualityIdentityChanged)
      runGen    == generationRuns(props, newP, state, newS, isMount)
      count     == settingsOf(newP, newS).blobCount
  IN /\ runRender => Len(starts) < MaxStarts
     /\ \E surface \in IF runRender THEN Surfaces ELSE {"ok"},
           blurWorks \in IF isMount THEN BOOLEAN ELSE {TRUE},
           random \in IF runGen THEN RandomStreams ELSE {<<0>>} :
          Store(commit([Heap EXCEPT !.nextState = newS], props, newP, state,
                       newS, isMount, qualityIdentityChanged, now,
                       [surface |-> surface, blurWorks |-> blurWorks,
                        random |-> random]))
     /\ props' = newP
     /\ state' = newS

Mount ==
  /\ phase = "idle"
  /\ phase' = "mounted"
  /\ Commit(props, initialState(props), TRUE, FALSE)
  /\ UNCHANGED << hw, now, frameRun, hostUpdates, fnIn, fnOut >>

\* React renders again because a state update is queued; it does so
\* before the host or the detection get their turn
Rerender ==
  /\ phase = "mounted" /\ frameRun = <<>>
  /\ nextState # state
  /\ Commit(props, nextState, FALSE, FALSE)
  /\ UNCHANGED << phase, hw, now, frameRun, hostUpdates, fnIn, fnOut >>

HostRender(newP, qualityIdentityChanged) ==
  /\ phase = "mounted" /\ frameRun = <<>> /\ nextState = state
  /\ hostUpdates < MaxHostUpdates
  /\ hostUpdates' = hostUpdates + 1
  /\ Commit(newP, nextState, FALSE, qualityIdentityChanged)
  /\ UNCHANGED << phase, hw, now, frameRun, fnIn, fnOut >>

\* the host passes a new qualitySettings object
SetQualitySettings ==
  /\ phase = "mounted"
  /\ \E q \in EngineQualities :
       HostRender([props EXCEPT !.qualitySettingsProp = q], TRUE)

SetNumBlobs ==
  /\ phase = "mounted"
  /\ \E n \in EngineNumBlobs \ {props.numBlobs} :
       HostRender([props EXCEPT !.numBlobs = n], FALSE)

\* the host supplies new control values
SetControls ==
  /\ phase = "mounted"
  /\ \E x \in EngineBlobX, r \in EngineRotations :
       /\ <<x, r>> # <<props.blobX, props.blobRotations>>
       /\ HostRender([props EXCEPT !.blobX = x, !.blobRotations = r], FALSE)

\* the promise of detectPerformanceTier() settles
DetectionResolves ==
  /\ inflight > 0 /\ frameRun = <<>>
  /\ phase = "mounted" => nextState = state
  /\ IF phase = "mounted"
       THEN Store(detectTierResolved(Heap, detectPerformanceTier(hw)))
       ELSE Store([Heap EXCEPT !.inflight = @ - 1])
  /\ UNCHANGED << phase, props, state, hw, now, frameRun, hostUpdates,
                  fnIn, fnOut >>

Unmount ==
  /\ phase = "mounted" /\ frameRun = <<>>
  /\ phase' = "unmounted"
  /\ Store(renderEffectCleanup(Heap))
  /\ UNCHANGED << props, state, hw, now, frameRun, hostUpdates, fnIn, fnOut >>

\* the browser begins an animation frame: it will run the callbacks
\* requested so far, in the order of the requests
BeginFrame ==
  /\ phase # "idle" /\ frameRun = <<>>
  /\ now + FrameStepMs <= MaxTime
  /\ now' = now + FrameStepMs
  /\ frameRun' = rafQueue
  /\ Store([Heap EXCEPT !.rafQueue = <<>>])
  /\ UNCHANGED << phase, props, state, hw, hostUpdates, fnIn, fnOut >>

\* the browser calls the next callback of the frame with the frame's time
RunCallback ==
  /\ frameRun # <<>>
  /\ frameRun' = Tail(frameRun)
  /\ Store(render(Heap, Head(frameRun), now, settingsOf(props, state).frameRate))
  /\ UNCHANGED << phase, props, state, hw, now, hostUpdates, fnIn, fnOut >>

\* the same call, in a frame in which the surface refuses to create the
\* gradient for the first `fails` blobs that ask for it
RunCallbackCreateThrows ==
  /\ frameRun # <<>>
  /\ frameRun' = Tail(frameRun)
  /\ hostUpdates < MaxHostUpdates
  /\ hostUpdates' = hostUpdates + 1
  /\ \E fails \in 1..Len(blobs) :
       /\ Store(render([Heap EXCEPT !.createFails = fails], Head(frameRun),
                       now, settingsOf(props, state).frameRate))
       /\ lastDraw' # lastDraw /\ Len(lastDraw'.errors) = fails
  /\ UNCHANGED << phase, props, state, hw, now, fnIn, fnOut >>

ResizeTimerFires ==
  /\ frameRun = <<>>
  /\ resizeTimer # <<>> /\ now >= resizeTimer[1]
  /\ Store(resizeTimeout(Heap))
  /\ UNCHANGED << phase, props, state, hw, now, frameRun, hostUpdates,
                  fnIn, fnOut >>

Next ==
  \/ Mount \/ Rerender \/ SetQualitySettings \/ SetNumBlobs \/ SetControls
  \/ DetectionResolves \/ Unmount \/ BeginFrame \/ RunCallback
  \/ RunCallbackCreateThrows \/ ResizeTimerFires

Spec == Init /\ [][Next]_vars

(***************************************************************************)
(* The quality resolver on its own: fnIn holds the values qualitySettings  *)
(* is computed from, fnOut its result once computed.                       *)
(***************************************************************************)
OptionalTiers == {<<>>} \cup {<<t>> : t \in Tiers}

ResolveOverrides ==
  {<<>>} \cup
  { <<Override(c, f, b)>> : c \in {<<>>, <<0>>, <<4>>, <<20>>},
                            f \in {<<>>, <<20>>, <<45>>, <<60>>},
                            b \in {<<>>, <<0>>, <<5>>} }

ResolveInit ==
  /\ props \in {p \in EngineProps : /\ p.performanceTierProp = <<>>
                                    /\ p.qualitySettingsProp = <<>>}
  /\ hw \in {e \in EngineHardware : e.deviceMemory = <<>>}
  /\ Unmounted
  /\ fnIn \in [ qualitySettingsProp : ResolveOverrides,
                loading : BOOLEAN,
                performanceTierProp : OptionalTiers,
                detectedPerformanceTier : OptionalTiers,
                numBlobs : 0..MaxRequested ]
  \* loading is never set back to TRUE once a tier was detected
  /\ fnIn.loading => fnIn.detectedPerformanceTier = <<>>
  /\ fnOut = <<>>

Resolve ==
  /\ fnOut = <<>>
  /\ fnOut' = << qualitySettings(
                   fnIn.qualitySettingsProp, fnIn.loading,
                   performanceTier(fnIn.performanceTierProp,
                                   fnIn.detectedPerformanceTier),
                   fnIn.numBlobs) >>
  /\ UNCHANGED << engineVars, fnIn >>

SpecResolve == ResolveInit /\ [][Resolve]_vars

(***************************************************************************)
(* The hardware tier detector on its own: hw is what the browser reports,  *)
(* fnOut the outcome of detectPerformanceTier().                           *)
(***************************************************************************)
Probes ==
  { Probe(TRUE, FALSE, FALSE, <<>>),       \* creating the context throws
    Probe(FALSE, FALSE, FALSE, <<>>),      \* no WebGL context
    Probe(FALSE, TRUE, FALSE, <<>>),       \* no WEBGL_debug_renderer_info
    Probe(FALSE, TRUE, TRUE, <<>>) }       \* getParameter yields null
  \cup
  { Probe(FALSE, TRUE, TRUE, <<r>>) :
      r \in { {"Intel"}, {"HD Graphics"}, {"AMD", "Radeon"},
              {"NVIDIA", "GeForce"}, {"Apple", "M1"}, {"Intel", "NVIDIA"},
              {"AMD", "Apple"}, {} } }

AllHardware ==
  [ windowDefined : BOOLEAN, navigatorDefined : BOOLEAN,
    readThrows : BOOLEAN,
    deviceMemory : {<<>>, <<0>>, <<2>>, <<4>>, <<8>>},
    hardwareConcurrency : {<<>>, <<2>>, <<4>>, <<8>>},
    probe : Probes ]

DetectInit ==
  /\ props \in {p \in EngineProps : /\ p.performanceTierProp = <<>>
                                    /\ p.qualitySettingsProp = <<>>}
  /\ hw \in AllHardware
  /\ Unmounted
  /\ fnIn = <<>> /\ fnOut = <<>>

Detect ==
  /\ fnOut = <<>>
  /\ fnOut' = << detectPerformanceTier(hw) >>
  /\ UNCHANGED << engineVars, fnIn >>

SpecDetect == DetectInit /\ [][Detect]_vars

(***************************************************************************)
(* The tier classification on its own: fnIn holds the GPU tier (<<>> when  *)
(* unknown), the memory in GB and the core count, fnOut the tier.          *)
(***************************************************************************)
GpuTiers == {<<>>, <<1>>, <<2>>, <<3>>}
MemoryReadings == {1, 2, 4, 6, 8, 16}
CoreReadings == {1, 2, 3, 4, 8}

ClassifyInit ==
  /\ props \in {p \in EngineProps : /\ p.performanceTierProp = <<>>
                                    /\ p.qualitySettingsProp = <<>>}
  /\ hw \in {e \in EngineHardware : e.deviceMemory = <<>>}
  /\ Unmounted
  /\ fnIn \in [gpuTier : GpuTiers, ram : MemoryReadings, cores : CoreReadings]
  /\ fnOut = <<>>

Classify ==
  /\ fnOut = <<>>
  /\ fnOut' = << getPerformanceTier(fnIn.gpuTier, fnIn.ram, fnIn.cores) >>
  /\ UNCHANGED << engineVars, fnIn >>

SpecClassify == ClassifyInit /\ [][Classify]_vars

(***************************************************************************)
(* The per-blob value lookup on its own: fnIn holds the control value, the *)
(* blob index and the default, fnOut the value looked up.                  *)
(***************************************************************************)
LookupValues ==
  { Undefined, Scalar(0), Scalar(250), Array(<<>>), Array(<<0>>),
    Array(<<0, 750>>), Array(<<100, 200, 300>>) }

LookupInit ==
  /\ props \in {p \in EngineProps : /\ p.performanceTierProp = <<>>
                                    /\ p.qualitySettingsProp = <<>>}
  /\ hw \in {e \in EngineHardware : e.deviceMemory = <<>>}
  /\ Unmounted
  /\ fnIn \in [value : LookupValues, index : 0..MaxIndex,
                defaultValue : {500, 45}]
  /\ fnOut = <<>>

Lookup ==
  /\ fnOut = <<>>
  /\ fnOut' = << getPerBlobValue(fnIn.value, fnIn.index, fnIn.defaultValue) >>
  /\ UNCHANGED << engineVars, fnIn >>

SpecLookup == LookupInit /\ [][Lookup]_vars

(***************************************************************************)
(* The Path2DPool on its own: fnIn is the sequence of the calls made so    *)
(* far, fnOut the sequence of what they returned.                          *)
(***************************************************************************)
CallsInit ==
  /\ props \in {p \in EngineProps : /\ p.performanceTierProp = <<>>
                                    /\ p.qualitySettingsProp = <<>>}
  /\ hw \in {e \in EngineHardware : e.deviceMemory = <<>>}
  /\ Unmounted
  /\ fnIn = <<>> /\ fnOut = <<>>

PoolGetPath ==
  /\ Len(fnIn) < MaxCalls
  /\ \E i \in DOMAIN BLOB_PATHS :
       LET rawPath == BLOB_PATHS[i]
           m == getPath(Heap, rawPath)
       IN /\ Store(m)
          /\ fnIn' = Append(fnIn, [op |-> "getPath", key |-> rawPath])
          /\ fnOut' = Append(fnOut, <<m.path2DPool[rawPath]>>)
  /\ UNCHANGED << phase, props, state, hw, now, frameRun, hostUpdates >>

PoolClear ==
  /\ Len(fnIn) < MaxCalls
  /\ Store([Heap EXCEPT !.path2DPool = clear(@)])
  /\ fnIn' = Append(fnIn, [op |-> "clear", key |-> <<>>])
  /\ fnOut' = Append(fnOut, <<>>)
  /\ UNCHANGED << phase, props, state, hw, now, frameRun, hostUpdates >>

PathPoolNext == PoolGetPath \/ PoolClear

SpecPathPool == CallsInit /\ [][PathPoolNext]_vars

(***************************************************************************)
(* The GradientCache on its own: fnIn is the sequence of the calls made so *)
(* far, fnOut the sequence of what they returned; created tells whether    *)
(* the call invoked its factory.                                           *)
(***************************************************************************)
GradientKeys == { <<"hslA", "hslB", ANIMATION_CONFIG.renderSize>>,
                  <<"hslC", "hslD", ANIMATION_CONFIG.renderSize>> }
GradientSurfaces == {1, 2}

CacheGetGradient ==
  /\ Len(fnIn) < MaxCalls
  /\ \E key \in GradientKeys :
       LET m == getGradient(Heap, gradientCanvas, key)
       IN /\ Store(m)
          /\ fnIn' = Append(fnIn, [op |-> "getGradient", key |-> key,
                                   canvas |-> 0])
          /\ fnOut' = Append(fnOut, [handle  |-> m.gradientCache[key],
                                     created |-> m.nextId # nextId])
  /\ UNCHANGED << phase, props, state, hw, now, frameRun, hostUpdates >>

CacheSetCanvas ==
  /\ Len(fnIn) < MaxCalls
  /\ \E canvas \in GradientSurfaces :
       /\ Store(setCanvas(Heap, canvas))
       /\ fnIn' = Append(fnIn, [op |-> "setCanvas", key |-> <<>>,
                                canvas |-> canvas])
       /\ fnOut' = Append(fnOut, [handle |-> <<>>, created |-> FALSE])
  /\ UNCHANGED << phase, props, state, hw, now, frameRun, hostUpdates >>

GradientCacheNext == CacheGetGradient \/ CacheSetCanvas

SpecGradientCache == CallsInit /\ [][GradientCacheNext]_vars

(***************************************************************************)
(* The merge pass on its own: fnIn is the list of dirty regions, fnOut the *)
(* list mergeDirtyRegions returns for it.                                  *)
(***************************************************************************)
Region(x, y, width, height) ==
  [x |-> x * Unit, y |-> y * Unit, width |-> width * Unit,
   height |-> height * Unit]

\* rectangles in px: disjoint, nested and partly overlapping pairs, wide
\* ones and tall ones
MergeRegions ==
  { Region(x, y, w, h) : x \in {0, 2}, y \in {0, 1}, w \in {2, 3},
                         h \in {1, 4} }

RegionLists == UNION { [1..n -> MergeRegions] : n \in 0..MaxRegions }

MergeInit ==
  /\ props \in {p \in EngineProps : /\ p.performanceTierProp = <<>>
                                    /\ p.qualitySettingsProp = <<>>}
  /\ hw \in {e \in EngineHardware : e.deviceMemory = <<>>}
  /\ Unmounted
  /\ fnIn \in RegionLists
  /\ fnOut = <<>>

Merge ==
  /\ fnOut = <<>>
  /\ fnOut' = << mergeDirtyRegions(fnIn) >>
  /\ UNCHANGED << engineVars, fnIn >>

SpecMerge == MergeInit /\ [][Merge]_vars

(***************************************************************************)
(* The blob generator on its own: fnIn holds the count and the values      *)
(* Math.random() will return, fnOut the population generateBlobs returns.  *)
(***************************************************************************)
GenerateStreams == [1..4 -> {0, 500, 999}]

GenerateInit ==
  /\ props \in {p \in EngineProps : /\ p.performanceTierProp = <<>>
                                    /\ p.qualitySettingsProp = <<>>}
  /\ hw \in {e \in EngineHardware : e.deviceMemory = <<>>}
  /\ Unmounted
  /\ fnIn \in [count : 0..MaxBlobs, random : GenerateStreams]
  /\ fnOut = <<>>

Generate ==
  /\ fnOut = <<>>
  /\ LET m == generateBlobs(fnIn.count, Heap, fnIn.random)
     IN Store(m) /\ fnOut' = << m.blobs >>
  /\ UNCHANGED << phase, props, state, hw, now, frameRun, hostUpdates, fnIn >>

SpecGenerate == GenerateInit /\ [][Generate]_vars

(***************************************************************************)
(* The change detection of the dirty-region pass on its own: fnIn holds    *)
(* the control values of one blob and the size of the surface, fnOut the   *)
(* state computed for the blob and the regions it contributes against      *)
(* ChangePrevState.                                                        *)
(***************************************************************************)
ChangeWidth  == 50
ChangeHeight == 100

\* the state of the blob at the preceding draw body: the centre of the
\* surface, not rotated
ChangePrevState ==
  [ position |-> [x |-> 500 * ChangeWidth, y |-> 500 * ChangeHeight],
    rotation |-> 0, scale |-> Unit ]

\* normalized positions 2 px and just over 2 px away from the centre
ChangeXs == {459, 460, 500, 540, 541}
ChangeYs == {479, 480, 500, 520, 521}
ChangeRotations == {-6, -5, 0, 5, 6}

ChangeInit ==
  /\ props \in {p \in EngineProps : /\ p.performanceTierProp = <<>>
                                    /\ p.qualitySettingsProp = <<>>}
  /\ hw \in {e \in EngineHardware : e.deviceMemory = <<>>}
  /\ Unmounted
  /\ fnIn \in [x : ChangeXs, y : ChangeYs, rotation : ChangeRotations]
  /\ fnOut = <<>>

DetectChange ==
  /\ fnOut = <<>>
  /\ LET blob == [path |-> [rawPath |-> BLOB_PATHS[1], id |-> 1],
                  rotation |-> ChangePrevState.rotation,
                  scale |-> ChangePrevState.scale]
         m == [Heap EXCEPT !.blobs = << blob >>,
                           !.blobXRef = Scalar(fnIn.x),
                           !.blobYRef = Scalar(fnIn.y),
                           !.blobRotationsRef = Scalar(fnIn.rotation)]
         currentState == blobFrameState(m, 0, ChangeWidth, ChangeHeight)
     IN fnOut' = << [state   |-> currentState,
                     regions |-> blobDirtyRegions(
                                   [blob EXCEPT !.rotation =
                                                   currentState.rotation],
                                   ChangePrevState, currentState,
                                   ChangeWidth, ChangeHeight)] >>
  /\ UNCHANGED << engineVars, fnIn >>

SpecChange == ChangeInit /\ [][DetectChange]_vars

(***************************************************************************)
(* calculateBlobBounds on its own: fnIn holds the normalized position of   *)
(* the blob, the two scale factors and the size of the surface in pixels,  *)
(* fnOut the region returned.                                              *)
(***************************************************************************)
\* normalized coordinates on and off the surface
BoundsCoordinates == {-1000, -100, 0, 500, 1000, 1100, 2000}
BoundsScales == {ANIMATION_CONFIG.scaleRange.min, Unit,
                 ANIMATION_CONFIG.scaleRange.max}
BoundsSurfaces == {100, 1000}

BoundsInit ==
  /\ props \in {p \in EngineProps : /\ p.performanceTierProp = <<>>
                                    /\ p.qualitySettingsProp = <<>>}
  /\ hw \in {e \in EngineHardware : e.deviceMemory = <<>>}
  /\ Unmounted
  /\ fnIn \in [x : BoundsCoordinates, y : BoundsCoordinates,
                blobScale : BoundsScales, scale : BoundsScales,
                surface : BoundsSurfaces]
  /\ fnOut = <<>>

Bounds ==
  /\ fnOut = <<>>
  /\ fnOut' = << calculateBlobBounds(
                   [path |-> [rawPath |-> BLOB_PATHS[1], id |-> 1],
                    rotation |-> 0, scale |-> fnIn.blobScale],
                   [x |-> fnIn.x * fnIn.surface, y |-> fnIn.y * fnIn.surface],
                   fnIn.scale, fnIn.surface * Unit, fnIn.surface * Unit) >>
  /\ UNCHANGED << engineVars, fnIn >>

SpecBounds == BoundsInit /\ [][Bounds]_vars

(***************************************************************************)
(* The component under a host that changes any of its props: besides the   *)
(* updates of Spec the host may pass other colors and another render size. *)
(***************************************************************************)
HostColorPair == << [h |-> 120, s |-> 50, l |-> 50],
                    [h |-> 300, s |-> 50, l |-> 50] >>
HostRenderSize == 64

HostInit ==
  /\ props \in {p \in EngineProps : /\ p.performanceTierProp = <<>>
                                    /\ p.qualitySettingsProp = <<>>}
  /\ hw \in {e \in EngineHardware : e.deviceMemory = <<>>}
  /\ Unmounted
  /\ fnIn = <<>> /\ fnOut = <<>>

\* the host passes another colorPair
SetColors ==
  /\ phase = "mounted"
  /\ \E c \in {EngineColorPair, HostColorPair} \ {props.colorPair} :
       HostRender([props EXCEPT !.colorPair = c], FALSE)

\* the host passes another renderSize
SetRenderSize ==
  /\ phase = "mounted"
  /\ \E r \in {ANIMATION_CONFIG.renderSize, HostRenderSize}
               \ {props.renderSize} :
       HostRender([props EXCEPT !.renderSize = r], FALSE)

HostNext ==
  \/ Mount \/ Rerender \/ SetQualitySettings \/ SetNumBlobs \/ SetControls
  \/ SetColors \/ SetRenderSize \/ DetectionResolves \/ BeginFrame
  \/ RunCallback

SpecHost == HostInit /\ [][HostNext]_vars

(***************************************************************************)
(* The component under resize notifications of the window: fnIn holds the  *)
(* times of the notifications delivered to handleResize, fnOut the times   *)
(* at which the debounce timer applied the size of the window.             *)
(***************************************************************************)
ResizeInit ==
  /\ props \in {p \in EngineProps : /\ p.performanceTierProp = <<>>
                                    /\ p.qualitySettingsProp = <<>>}
  /\ hw \in {e \in EngineHardware : e.deviceMemory = <<>>}
  /\ Unmounted
  /\ fnIn = <<>> /\ fnOut = <<>>

\* the window changes its size and dispatches "resize"
WindowResize ==
  /\ phase # "idle" /\ frameRun = <<>>
  /\ Len(fnIn) < MaxNotifications
  /\ \E size \in {1, 2} \ {windowSize} :
       IF resizeListener
         THEN /\ Store(handleResize([Heap EXCEPT !.windowSize = size], now))
              /\ fnIn' = Append(fnIn, now)
         ELSE /\ Store([Heap EXCEPT !.windowSize = size])
              /\ fnIn' = fnIn
  /\ UNCHANGED << phase, props, state, hw, now, frameRun, hostUpdates, fnOut >>

\* the debounce timer that is due runs its callback
ResizeApplies ==
  /\ frameRun = <<>>
  /\ resizeTimer # <<>> /\ now >= resizeTimer[1]
  /\ Store(resizeTimeout(Heap))
  /\ fnOut' = Append(fnOut, now)
  /\ UNCHANGED << phase, props, state, hw, now, frameRun, hostUpdates, fnIn >>

\* time passes up to the next animation frame, or up to the moment the
\* pending timer is due when that comes first; a timer that is due runs
\* before time passes on
ResizeElapse ==
  /\ phase # "idle" /\ frameRun = <<>>
  /\ resizeTimer # <<>> => now < resizeTimer[1]
  /\ now < MaxResizeTime
  /\ now' = IF resizeTimer # <<>> /\ resizeTimer[1] < now + ResizeStepMs
              THEN resizeTimer[1] ELSE now + ResizeStepMs
  /\ frameRun' = rafQueue
  /\ Store([Heap EXCEPT !.rafQueue = <<>>])
  /\ UNCHANGED << phase, props, state, hw, hostUpdates, fnIn, fnOut >>

ResizeNext ==
  \/ Mount \/ Rerender \/ DetectionResolves \/ Unmount \/ RunCallback
  \/ WindowResize \/ ResizeApplies \/ ResizeElapse

SpecResize == ResizeInit /\ [][ResizeNext]_vars

(***************************************************************************)
(* The GPU probe on its own: hw.probe is what the browser answers to the   *)
(* probe, the renderer string being any combination of the searched        *)
(* substrings; fnOut is the outcome of detectGPUSimple().                  *)
(***************************************************************************)
GpuProbes ==
  { Probe(TRUE, FALSE, FALSE, <<>>), Probe(FALSE, FALSE, FALSE, <<>>),
    Probe(FALSE, TRUE, FALSE, <<>>), Probe(FALSE, TRUE, TRUE, <<>>) }
  \cup { Probe(FALSE, TRUE, TRUE, <<r>>) : r \in SUBSET RendererTokens }

GpuInit ==
  /\ props \in {p \in EngineProps : /\ p.performanceTierProp = <<>>
                                    /\ p.qualitySettingsProp = <<>>}
  /\ hw \in [ windowDefined : BOOLEAN, navigatorDefined : {TRUE},
              readThrows : {FALSE}, deviceMemory : {<<>>},
              hardwareConcurrency : {<<>>}, probe : GpuProbes ]
  /\ Unmounted
  /\ fnIn = <<>> /\ fnOut = <<>>

ProbeGpu ==
  /\ fnOut = <<>>
  /\ fnOut' = << detectGPUSimple(hw.windowDefined, hw.probe) >>
  /\ UNCHANGED << engineVars, fnIn >>

SpecGpu == GpuInit /\ [][ProbeGpu]_vars

(***************************************************************************)
(* The component under a host that renders it again with new control       *)
(* values or with a new onError function, with and without a tier          *)
(* override.                                                               *)
(***************************************************************************)
\* the host passes another function as onError
SetOnError ==
  /\ phase = "mounted"
  /\ \E f \in EngineOnError \ {props.onError} :
       HostRender([props EXCEPT !.onError = f], FALSE)

TierNext ==
  \/ Mount \/ Rerender \/ SetControls \/ SetOnError \/ DetectionResolves
  \/ BeginFrame \/ RunCallback

SpecTier == Init /\ [][TierNext]_vars

(***************************************************************************)
(* Properties.                                                             *)
(***************************************************************************)
\* the surface of loop l cleared as a whole
FullSurface(l) ==
  [x |-> 0, y |-> 0, width |-> loops[l].renderSize * Unit,
   height |-> loops[l].renderSize * Unit]

\* l was created by a run of the setup that got past its early returns
StartedLoop(log, l) == \E k \in DOMAIN log : log[k].ok /\ log[k].loop = l

\* the requested count and the tier the resolver was applied to
ResolvedTier ==
  IF fnIn.performanceTierProp # <<>> THEN fnIn.performanceTierProp[1]
  ELSE IF fnIn.detectedPerformanceTier # <<>>
    THEN fnIn.detectedPerformanceTier[1]
  ELSE "medium"

\* the GPU probe of hw fails: probing throws, or the 3D context, the debug
\* extension or the renderer string is unavailable
ProbeFails ==
  \/ hw.probe.throws \/ ~hw.probe.gl \/ ~hw.probe.debugInfo
  \/ hw.probe.renderer = <<>>

\* the memory and core readings with their defaults for absent readings
MemoryReading ==
  IF hw.deviceMemory \in {<<>>, <<0>>} THEN 2 ELSE hw.deviceMemory[1]
CoresReading ==
  IF hw.hardwareConcurrency \in {<<>>, <<0>>} THEN 2
  ELSE hw.hardwareConcurrency[1]

\* C1: after teardown (cleanup of the render effect) no frame callback of
\* the torn-down loop remains scheduled and its draw body never executes
\* again: every scheduled or running callback, and every executed draw body,
\* belongs to the loop whose cleanup is still to come.
C1_NoFrameAfterTeardown ==
  [][ /\ \A i \in DOMAIN rafQueue' : rafQueue'[i] = activeLoop'
      /\ \A i \in DOMAIN frameRun' : frameRun'[i] = activeLoop'
      /\ lastDraw' # lastDraw => lastDraw'.loop = activeLoop' ]_vars

\* C2: any two successive executions of the draw body are at least
\* 1000 / frameRate ms apart, frameRate being the resolved quality setting
\* in effect at the later execution.
C2_DrawsOncePerFrameInterval ==
  (lastDraw.loop # 0 /\ lastDraw.prevTime >= 0 /\ lastDraw.frameRate > 0)
    => (lastDraw.time - lastDraw.prevTime) * lastDraw.frameRate >= 1000

C4_FailedStartDoesNotRun ==
  [][ /\ ( Len(starts') > Len(starts) /\ ~starts'[Len(starts')].ok )
           => /\ rafQueue' = rafQueue /\ loops' = loops
              /\ ~resizeListener' /\ resizeTimer' = <<>>
              /\ lastDraw' = lastDraw /\ lastCall' = lastCall
              /\ activeLoop' = 0
      /\ \A i \in DOMAIN rafQueue' : StartedLoop(starts', rafQueue'[i])
      /\ lastDraw'.loop # 0 => StartedLoop(starts', lastDraw'.loop) ]_vars

\* C4 witness: a start failed after an earlier start had succeeded and
\* drawn
C4_Witness ==
  /\ Len(starts) >= 2 /\ starts[1].ok /\ ~starts[Len(starts)].ok
  /\ lastDraw.loop # 0 /\ phase = "mounted"

\* C5: after teardown of the engine instance the Path Cache, the Gradient
\* Cache and the Color-String Cache are empty and stay empty.
C5_CachesStayEmptyAfterTeardown ==
  ( /\ phase = "unmounted"
    /\ starts # <<>> /\ starts[Len(starts)].ok )
    => /\ path2DPool = EmptyCache
       /\ gradientCache = EmptyCache
       /\ colorCache = EmptyCache

\* C6: the first draw body executed after the blob population is generated
\* or regenerated clears the whole offscreen surface it draws on,
\* (0, 0, renderSize, renderSize), and emits no partial dirty regions.
C6_FirstFrameClearsWholeSurface ==
  drawsSinceGeneration = 1
    => /\ lastDraw.fullClear = << FullSurface(lastDraw.loop) >>
       /\ lastDraw.dirtyRegions = <<>>
       /\ lastDraw.cleared = <<>>

\* C6 witness: the first draw body after a regeneration that followed
\* earlier draw bodies
C6_Witness ==
  /\ drawsSinceGeneration = 1 /\ lastDraw.prevTime >= 0
  /\ hostUpdates = 1 /\ props.numBlobs = 1
  /\ Len(lastDraw.drawn) = 1 /\ lastDraw.fullClear # <<>>

\* C7: with no quality override and detection resolved the resolved
\* settings are low -> min(6, n), 20, 2; medium -> min(9, n), 30, 3;
\* high -> n, 60, 4.
C7_TierTable ==
  ( fnOut # <<>> /\ fnIn.qualitySettingsProp = <<>> /\ ~fnIn.loading )
    => LET n == fnIn.numBlobs IN
       /\ ResolvedTier = "low" =>
            fnOut[1] = [blobCount |-> IF n < 6 THEN n ELSE 6,
                        frameRate |-> 20, blurAmount |-> 2]
       /\ ResolvedTier = "medium" =>
            fnOut[1] = [blobCount |-> IF n < 9 THEN n ELSE 9,
                        frameRate |-> 30, blurAmount |-> 3]
       /\ ResolvedTier = "high" =>
            fnOut[1] = [blobCount |-> n, frameRate |-> 60, blurAmount |-> 4]

\* C7 witness: the low tier resolved for a request above its cap
C7_Witness ==
  /\ fnOut # <<>> /\ fnIn.qualitySettingsProp = <<>> /\ ~fnIn.loading
  /\ ResolvedTier = "low" /\ fnIn.numBlobs > 6 /\ fnOut[1].blobCount = 6

\* C8 as claimed: with an override each field is the override's value when
\* present and otherwise the medium row: min(9, requested), 30, 3.
C8_OverrideFallsBackToMediumRow ==
  ( fnOut # <<>> /\ fnIn.qualitySettingsProp # <<>> )
    => LET q == fnIn.qualitySettingsProp[1]
           n == fnIn.numBlobs
       IN fnOut[1] =
            [blobCount  |-> IF q.blobCount # <<>> THEN q.blobCount[1]
                            ELSE IF n < 9 THEN n ELSE 9,
             frameRate  |-> IF q.frameRate # <<>> THEN q.frameRate[1] ELSE 30,
             blurAmount |-> IF q.blurAmount # <<>> THEN q.blurAmount[1] ELSE 3]

\* C8 amended: with an override each field is the override's value when
\* present; otherwise frameRate is 30, blur is 3 and blobCount is the
\* requested count without a cap, whatever the tier is.
C8_OverrideFallsBackToRequested ==
  ( fnOut # <<>> /\ fnIn.qualitySettingsProp # <<>> )
    => LET q == fnIn.qualitySettingsProp[1]
       IN fnOut[1] =
            [blobCount  |-> IF q.blobCount # <<>> THEN q.blobCount[1]
                            ELSE fnIn.numBlobs,
             frameRate  |-> IF q.frameRate # <<>> THEN q.frameRate[1] ELSE 30,
             blurAmount |-> IF q.blurAmount # <<>> THEN q.blurAmount[1] ELSE 3]

\* C8 witness: an override without blobCount and frameRate, a request above
\* 9 and a resolved tier other than medium
C8_Witness ==
  /\ fnOut # <<>> /\ fnIn.qualitySettingsProp # <<>>
  /\ fnIn.qualitySettingsProp[1].blobCount = <<>>
  /\ fnIn.qualitySettingsProp[1].frameRate = <<>>
  /\ fnIn.numBlobs > 9 /\ ~fnIn.loading /\ ResolvedTier = "low"
  /\ fnOut[1].blobCount = fnIn.numBlobs

\* C9: while detection is pending and no override is supplied the resolved
\* settings are frameRate 30, blur 3 and the requested count without a cap,
\* whatever tier override is present.
C9_PendingIsMediumUncapped ==
  ( fnOut # <<>> /\ fnIn.qualitySettingsProp = <<>> /\ fnIn.loading )
    => fnOut[1] = [blobCount |-> fnIn.numBlobs, frameRate |-> 30,
                   blurAmount |-> 3]

\* C9 witness: pending with a low tier override and a request above 9
C9_Witness ==
  /\ fnOut # <<>> /\ fnIn.qualitySettingsProp = <<>> /\ fnIn.loading
  /\ fnIn.performanceTierProp = <<"low">> /\ fnIn.numBlobs > 9
  /\ fnOut[1].blobCount = fnIn.numBlobs

\* C10 as claimed: detectTier never raises and returns medium whenever the
\* hardware probe fails, for every memory and core-count reading.
C10_ProbeFailureGivesMedium ==
  fnOut # <<>>
    => /\ fnOut[1].kind = "return"
       /\ ProbeFails => fnOut[1].value = "medium"

\* C10 amended: detectTier never raises; when the hardware probe fails the
\* GPU tier is unknown and the result is low if memory <= 4 or cores <= 2
\* (an absent reading counting as 2) and medium otherwise, never high; it is
\* medium when window or navigator is missing or reading the hardware
\* values throws.
C10_ProbeFailureGivesLowOrMedium ==
  fnOut # <<>>
    => /\ fnOut[1].kind = "return"
       /\ fnOut[1].value \in {"low", "medium", "high"}
       /\ ( ~hw.windowDefined \/ ~hw.navigatorDefined \/ hw.readThrows )
            => fnOut[1].value = "medium"
       /\ ( hw.windowDefined /\ hw.navigatorDefined /\ ~hw.readThrows
            /\ ProbeFails )
            => fnOut[1].value =
                 IF MemoryReading <= 4 \/ CoresReading <= 2
                   THEN "low" ELSE "medium"

\* C10 witness: probing threw on a machine with 8 GB and 8 cores
C10_Witness ==
  /\ fnOut # <<>> /\ hw.windowDefined /\ hw.navigatorDefined
  /\ ~hw.readThrows /\ hw.probe.throws
  /\ hw.deviceMemory = <<8>> /\ hw.hardwareConcurrency = <<8>>
  /\ fnOut[1] = Return("medium")

\* C11: for every GPU tier in {unknown, 1, 2, 3} and every memory and core
\* count the classification is low if (GPU known and <= 1) or memory <= 4
\* or cores <= 2; otherwise high if GPU known and >= 3 and memory >= 8 and
\* cores >= 4; otherwise medium.
C11_Classification ==
  fnOut # <<>>
    => LET g == fnIn.gpuTier
           lowRule  == \/ g # <<>> /\ g[1] <= 1
                       \/ fnIn.ram <= 4 \/ fnIn.cores <= 2
           highRule == /\ g # <<>> /\ g[1] >= 3
                       /\ fnIn.ram >= 8 /\ fnIn.cores >= 4
       IN /\ lowRule => fnOut[1] = "low"
          /\ (~lowRule /\ highRule) => fnOut[1] = "high"
          /\ (~lowRule /\ ~highRule) => fnOut[1] = "medium"

\* C11 witness: a tier 3 GPU and 8 cores with exactly 4 GB classify as low
C11_Witness ==
  /\ fnOut = <<"low">> /\ fnIn.gpuTier = <<3>>
  /\ fnIn.ram = 4 /\ fnIn.cores = 8

\* C12: when hardware detection fails (probing throws or yields unusable
\* data, or reading the hardware values throws) the effective tier becomes
\* medium and the host's onError callback is invoked with the failure; the
\* engine keeps running (the callback of the started loop stays scheduled).
C12_DetectionFailureReported ==
  ( /\ phase = "mounted" /\ props.performanceTierProp = <<>>
    /\ ~state.loading /\ (ProbeFails \/ hw.readThrows) )
    => /\ tierOf(props, state) = "medium"
       /\ errorsReported >= 1
       /\ activeLoop # 0 =>
            \/ \E i \in DOMAIN rafQueue : rafQueue[i] = activeLoop
            \/ \E i \in DOMAIN frameRun : frameRun[i] = activeLoop

\* every entry of the cache before is still there, with the same handle
Kept(before, after) ==
  \A k \in DOMAIN before : k \in DOMAIN after /\ after[k] = before[k]

\* C13: when tier detection resolves while the render loop is running, the
\* new tier's settings take effect without a restart of the loop: the
\* running loop is not torn down, no second loop is started and the caches
\* are not cleared by the switch.
C13_TierSwitchKeepsLoop ==
  [][ ( /\ props.performanceTierProp = <<>> /\ activeLoop # 0
        /\ state.loading /\ ~state'.loading )
      => /\ activeLoop' = activeLoop
         /\ starts' = starts /\ loops' = loops
         /\ Kept(path2DPool, path2DPool')
         /\ Kept(gradientCache, gradientCache')
         /\ Kept(colorCache, colorCache') ]_vars

\* the host supplied new X, Y or rotation values and nothing else
ControlsChanged ==
  /\ << props'.blobX, props'.blobY, props'.blobRotations >>
       # << props.blobX, props.blobY, props.blobRotations >>
  /\ [props' EXCEPT !.blobX = props.blobX, !.blobY = props.blobY,
                    !.blobRotations = props.blobRotations] = props

\* C14: a change of the externally supplied X, Y or rotation values never
\* stops, restarts or adds a render loop, never clears a cache and never
\* regenerates the population; every executed draw body uses the most
\* recently supplied values.
C14_ControlsReadLive ==
  [][ /\ ControlsChanged
        => /\ UNCHANGED << starts, loops, activeLoop, rafQueue, frameRun >>
           /\ UNCHANGED << path2DPool, gradientCache, colorCache >>
           /\ UNCHANGED << blobs, drawsSinceGeneration, isFirstFrame >>
      /\ ( lastDraw' # lastDraw /\ lastDraw'.loop # 0 )
        => \A k \in DOMAIN lastDraw'.drawn :
             LET d    == lastDraw'.drawn[k]
                 size == loops'[lastDraw'.loop].renderSize
             IN /\ d.position.x = getPerBlobValue(props'.blobX, k - 1, 500)
                                    * size
                /\ d.position.y = getPerBlobValue(props'.blobY, k - 1, 500)
                                    * size
                /\ props'.blobRotations # Undefined
                     => d.rotation = getPerBlobValue(props'.blobRotations,
                                                     k - 1, 0) ]_vars

\* C14 witness: the only loop drew again after the host had moved the
\* blobs and set their rotation
C14_Witness ==
  /\ hostUpdates = 1 /\ Len(starts) = 1
  /\ props.blobX = Scalar(750) /\ props.blobRotations = Scalar(45)
  /\ lastDraw.loop = 1 /\ lastDraw.prevTime >= 0 /\ Len(lastDraw.drawn) = 2
  /\ lastDraw.drawn[2].position.x = 750 * props.renderSize
  /\ lastDraw.drawn[2].rotation = 45

\* C15: per-blob value lookup: for a shared scalar every index returns that
\* scalar; for a sequence an index inside it returns the element at that
\* index and an index at or beyond its length returns the supplied
\* default; for undefined input every index returns the default.
C15_PerBlobLookup ==
  fnOut # <<>>
    => LET v == fnIn.value IN
       /\ v.kind = "scalar" => fnOut[1] = v.scalar
       /\ ( v.kind = "array" /\ fnIn.index < Len(v.array) )
            => fnOut[1] = v.array[fnIn.index + 1]
       /\ ( v.kind = "array" /\ fnIn.index >= Len(v.array) )
            => fnOut[1] = fnIn.defaultValue
       /\ v.kind = "undefined" => fnOut[1] = fnIn.defaultValue

\* C15 witness: the element 0 of a two-element sequence was looked up
C15_Witness ==
  /\ fnIn.value = Array(<<0, 750>>) /\ fnIn.index = 0
  /\ fnIn.defaultValue = 500 /\ fnOut = <<0>>

\* a clear call lies between the calls i and j of the call sequence
ClearBetween(i, j) == \E k \in (i + 1)..(j - 1) : fnIn[k].op = "clear"

\* C16: for any sequence of getPath and clear calls on a Path Cache, two
\* getPath calls with the same key and no clear between them return the
\* identical handle, and a getPath for a key after a clear returns a fresh
\* handle, distinct from the one returned for the key before the clear.
C16_PathHandleIdentity ==
  \A i, j \in DOMAIN fnIn :
    ( /\ i < j /\ fnIn[i].op = "getPath" /\ fnIn[j].op = "getPath"
      /\ fnIn[i].key = fnIn[j].key )
      => /\ fnOut[j][1].rawPath = fnIn[j].key
         /\ ~ClearBetween(i, j) => fnOut[j] = fnOut[i]
         /\ ClearBetween(i, j) => fnOut[j][1].id # fnOut[i][1].id

\* C16 witness: a key was fetched twice, the cache cleared, and the key
\* fetched again
C16_Witness ==
  /\ Len(fnIn) = 4
  /\ fnIn[1].op = "getPath" /\ fnIn[2] = fnIn[1]
  /\ fnIn[3].op = "clear" /\ fnIn[4] = fnIn[1]
  /\ fnOut[1] = fnOut[2] /\ fnOut[4] # fnOut[1]

\* call j is the first getGradient for its key since the rebind at call i
FirstSinceRebind(i, j) ==
  /\ i < j /\ fnIn[i].op = "setCanvas" /\ fnIn[j].op = "getGradient"
  /\ \A k \in (i + 1)..(j - 1) : fnIn[k] # fnIn[j]

\* C17: rebinding the Gradient Cache to a surface (setCanvas) removes every
\* entry: right after a rebind the cache is empty, and the first
\* getGradient for any key after a rebind invokes its factory again, even
\* for keys that were cached before the rebind.
C17_RebindClearsGradients ==
  /\ ( fnIn # <<>> /\ fnIn[Len(fnIn)].op = "setCanvas" )
       => /\ gradientCache = EmptyCache
          /\ gradientCanvas = fnIn[Len(fnIn)].canvas
  /\ \A i, j \in DOMAIN fnIn :
       FirstSinceRebind(i, j)
         => /\ fnOut[j].created
            /\ \A k \in 1..(i - 1) :
                 fnIn[k].op = "getGradient"
                   => fnOut[k].handle.id # fnOut[j].handle.id

\* C17 witness: a key cached before a rebind was fetched again after it
C17_Witness ==
  /\ Len(fnIn) = 3
  /\ fnIn[1].op = "getGradient" /\ fnIn[2].op = "setCanvas"
  /\ fnIn[3] = fnIn[1] /\ fnOut[1].created /\ fnOut[3].created
  /\ fnOut[3].handle.id # fnOut[1].handle.id

\* geometry of rectangles: area, intersection area, bounding box, inclusion
Area(r) == r.width * r.height

IntersectionArea(a, b) ==
  LET w == Min(a.x + a.width, b.x + b.width) - Max(a.x, b.x)
      h == Min(a.y + a.height, b.y + b.height) - Max(a.y, b.y)
  IN IF w > 0 /\ h > 0 THEN w * h ELSE 0

BoundingBox(rs) ==
  LET left   == CHOOSE v \in {r.x : r \in rs} : \A r \in rs : v <= r.x
      top    == CHOOSE v \in {r.y : r \in rs} : \A r \in rs : v <= r.y
      right  == CHOOSE v \in {r.x + r.width : r \in rs} :
                  \A r \in rs : v >= r.x + r.width
      bottom == CHOOSE v \in {r.y + r.height : r \in rs} :
                  \A r \in rs : v >= r.y + r.height
  IN [x |-> left, y |-> top, width |-> right - left, height |-> bottom - top]

Inside(inner, outer) ==
  /\ outer.x <= inner.x /\ outer.y <= inner.y
  /\ inner.x + inner.width <= outer.x + outer.width
  /\ inner.y + inner.height <= outer.y + outer.height

RECURSIVE TotalArea(_)
TotalArea(rs) == IF rs = <<>> THEN 0 ELSE Area(Head(rs)) + TotalArea(Tail(rs))

RegionsOf(rs) == {rs[i] : i \in DOMAIN rs}

\* C18: for any two dirty regions whose intersection area exceeds 50% of
\* the area of at least one of them, mergeDirtyRegions applied to the pair,
\* in either order, returns exactly one rectangle, the bounding union of
\* the two.
C18_PairMergesToBoundingUnion ==
  ( /\ fnOut # <<>> /\ Len(fnIn) = 2
    /\ \/ 2 * IntersectionArea(fnIn[1], fnIn[2]) > Area(fnIn[1])
       \/ 2 * IntersectionArea(fnIn[1], fnIn[2]) > Area(fnIn[2]) )
    => fnOut[1] = << BoundingBox({fnIn[1], fnIn[2]}) >>

\* C18 witness: a wide region given after a tall one that covers more than
\* half of it, but is itself covered by less than half
C18_Witness ==
  /\ fnIn = << Region(0, 0, 2, 4), Region(0, 0, 3, 1) >>
  /\ fnOut = << << Region(0, 0, 3, 4) >> >>

\* C19 as claimed: for every input list of dirty regions the total area of
\* the regions the merge pass returns is at most the sum of the areas of
\* the input regions.
C19_AreaNeverGrows ==
  fnOut # <<>> => TotalArea(fnOut[1]) <= TotalArea(fnIn)

\* C19 amended: every region the merge pass returns lies inside the
\* bounding box of the input regions, and when the pass merges nothing
\* (as many regions out as in) it returns the input list, with the same
\* total area.
C19_AreaWithinBoundingBox ==
  ( fnOut # <<>> /\ fnIn # <<>> )
    => /\ \A i \in DOMAIN fnOut[1] :
            Inside(fnOut[1][i], BoundingBox(RegionsOf(fnIn)))
       /\ Len(fnOut[1]) = Len(fnIn) => fnOut[1] = fnIn

\* C19 witness: a merge whose bounding union is larger than the two merged
\* regions together
C19_Witness ==
  /\ fnIn = << Region(0, 0, 3, 1), Region(0, 0, 2, 4) >>
  /\ fnOut = << << Region(0, 0, 3, 4) >> >>
  /\ TotalArea(fnOut[1]) > TotalArea(fnIn)

\* C20: for every input list of dirty regions every input region is fully
\* contained in at least one region of the merge pass output, and the
\* output never has more regions than the input.
C20_InputsCovered ==
  fnOut # <<>>
    => /\ \A i \in DOMAIN fnIn :
            \E j \in DOMAIN fnOut[1] : Inside(fnIn[i], fnOut[1][j])
       /\ Len(fnOut[1]) <= Len(fnIn)

\* C20 witness: three regions of which the third was merged into the
\* union of the first two
C20_Witness ==
  /\ Len(fnIn) = 3 /\ fnOut # <<>> /\ Len(fnOut[1]) = 1
  /\ fnIn[1] # fnIn[2] /\ fnIn[2] # fnIn[3] /\ fnIn[1] # fnIn[3]
  /\ ~Inside(fnIn[3], fnIn[1]) /\ ~Inside(fnIn[2], fnIn[1])
  /\ ~Inside(fnIn[1], fnIn[2])
  /\ 2 * IntersectionArea(fnIn[3], fnIn[1]) <= Area(fnIn[3])
  /\ 2 * IntersectionArea(fnIn[3], fnIn[1]) <= Area(fnIn[1])

\* the scale factors of a population, in thousandths
ScalesOf(population) == [i \in DOMAIN population |-> population[i].scale]

\* C21 as claimed: generating 6 blobs with scaleMin 0.2 and scaleMax 1.7
\* yields the scale factors [1.7, 1.5, 1.3, 1.1, 0.9, 0.7].
C21_SixBlobScalesEndAtSevenTenths ==
  ( fnOut # <<>> /\ fnIn.count = 6 )
    => ScalesOf(fnOut[1]) = <<1700, 1500, 1300, 1100, 900, 700>>

\* C21 amended: generating 6 blobs with scaleMin 0.2 and scaleMax 1.7
\* yields the scale factors [1.7, 1.4, 1.1, 0.8, 0.5, 0.2], the linear ramp
\* from scaleMax down to scaleMin.
C21_SixBlobScalesRampToMin ==
  ( fnOut # <<>> /\ fnIn.count = 6 )
    => ScalesOf(fnOut[1]) = <<1700, 1400, 1100, 800, 500, 200>>

\* C21 witness: six blobs were generated and the second one has scale 1.4
C21_Witness ==
  /\ fnOut # <<>> /\ fnIn.count = 6 /\ Len(fnOut[1]) = 6
  /\ fnOut[1][2].scale = 1400 /\ fnOut[1][6].scale = 200

\* C22: a population of exactly one blob has a blob whose scaleFactor is
\* scaleMax, a well-defined number; for count >= 2 index 0 gets scaleMax,
\* the last index gets scaleMin and the scale strictly decreases with the
\* index.
C22_ScaleRamp ==
  fnOut # <<>>
    => LET b == fnOut[1] IN
       /\ Len(b) = fnIn.count
       /\ fnIn.count = 1
            => ~IsNaN(b[1].scale)
               /\ b[1].scale = ANIMATION_CONFIG.scaleRange.max
       /\ fnIn.count >= 2
            => /\ b[1].scale = ANIMATION_CONFIG.scaleRange.max
               /\ b[Len(b)].scale = ANIMATION_CONFIG.scaleRange.min
               /\ \A i \in 1..(Len(b) - 1) : b[i].scale > b[i + 1].scale

\* a step in which a draw body ran to its end
DrawBodyRan == lastDraw' # lastDraw /\ lastDraw'.loop # 0

\* the indices of the blobs drawn by the batch drawing of a frame
DrawnIndices(d) == { d.drawn[k].blob : k \in 1..Len(d.drawn) }

\* the indices of the blobs whose preparation was caught in a frame
ErrorIndices(d) == { d.errors[k] : k \in 1..Len(d.errors) }

\* C23: when the preparation of blob i fails during a frame, only blob i is
\* skipped: every blob whose preparation succeeded is drawn, the frame is
\* composited and the next callback is requested, the Gradient Cache holds
\* nothing for a creation that failed, and every executed draw body, the
\* next one included, prepares every blob of the population again.
C23_FailedPreparationSkipsOneBlob ==
  [][DrawBodyRan
       => LET d   == lastDraw'
              key == <<blobColorsRef'.a, blobColorsRef'.b,
                       loops'[d.loop].renderSize>>
          IN /\ DrawnIndices(d) \cup ErrorIndices(d)
                  = 0..(Len(blobs') - 1)
             /\ DrawnIndices(d) \cap ErrorIndices(d) = {}
             /\ Len(d.drawn) + Len(d.errors) = Len(blobs')
             /\ rafQueue' # <<>> /\ rafQueue'[Len(rafQueue')] = d.loop
             /\ lastCall' = [loop |-> d.loop, time |-> d.time, drew |-> TRUE]
             /\ d.drawn = <<>> /\ d.errors # <<>>
                  => ~has(gradientCache', key)
             /\ \A k \in 1..Len(d.drawn) :
                  /\ has(gradientCache', key)
                  /\ d.drawn[k].gradient = gradientCache'[key]]_vars

\* a frame after one whose blob 0 failed draws both blobs again
C23_Witness ==
  /\ lastDraw.loop # 0 /\ Len(blobs) = 2
  /\ lastDraw.prevErrors = <<0>>
  /\ lastDraw.errors = <<>> /\ Len(lastDraw.drawn) = 2

\* the last entry of a log
LastOf(log) == log[Len(log)]

\* C24, as stated: at most one resize timer is pending, nothing is pending
\* after teardown, and the application that follows a burst of
\* notifications happens exactly 100 ms after the last notification of
\* the burst.
C24_AppliedAfterLastNotification ==
  /\ [](/\ Len(resizeTimer) <= 1
        /\ phase = "unmounted" => resizeTimer = <<>>)
  /\ [][ ( /\ fnOut' # fnOut /\ fnIn # <<>>
           /\ fnOut # <<>> => LastOf(fnOut) <= LastOf(fnIn) )
          => now = LastOf(fnIn) + ANIMATION_CONFIG.resizeDebounceDelayMs ]_vars

\* C24, amended: resize notifications are coalesced.  At most one resize
\* timer is pending; a notification replaces the pending timer by one that
\* is due 100 ms later (and so does every start of the render loop); the
\* size is applied only by that timer at the moment it is due, while the
\* component is mounted; so two applications are at least 100 ms apart, no
\* notification lies in the 100 ms before an application, and nothing is
\* pending or applied after teardown.
C24_ResizeCoalesced ==
  /\ [](/\ Len(resizeTimer) <= 1
        /\ phase = "unmounted" => resizeTimer = <<>>
        /\ \A j, k \in DOMAIN fnOut :
             j < k => fnOut[k] - fnOut[j]
                        >= ANIMATION_CONFIG.resizeDebounceDelayMs
        /\ \A k \in DOMAIN fnOut : \A j \in DOMAIN fnIn :
             ~( /\ fnOut[k] - ANIMATION_CONFIG.resizeDebounceDelayMs < fnIn[j]
                /\ fnIn[j] < fnOut[k] ))
  /\ [][ /\ fnIn' # fnIn
             => resizeTimer'
                  = << now + ANIMATION_CONFIG.resizeDebounceDelayMs >>
         /\ fnOut' # fnOut
             => /\ resizeTimer # <<>> /\ now = resizeTimer[1]
                /\ resizeTimer' = <<>>
                /\ phase = "mounted" /\ resizeListener
                /\ canvasSize' = windowSize ]_vars

\* a burst of two notifications 50 ms apart was applied once, 100 ms after
\* the second
C24_Witness ==
  /\ Len(fnIn) = 2 /\ fnIn[1] < fnIn[2]
  /\ fnIn[2] - fnIn[1] < ANIMATION_CONFIG.resizeDebounceDelayMs
  /\ fnOut = << fnIn[2] + ANIMATION_CONFIG.resizeDebounceDelayMs >>

\* the snapshot of a blob as batch drawing drew it
SnapshotOf(entry) ==
  [position |-> entry.position, rotation |-> entry.rotation,
   scale |-> entry.scale]

\* C25: after every executed draw body, the full-clear first frame
\* included, previousBlobStates holds one snapshot per blob of the
\* population, equal to the state drawn in that frame; it is empty only
\* between a regeneration and the next executed draw body.
C25_HistoryHoldsDrawnStates ==
  /\ [][DrawBodyRan
          => /\ Len(previousBlobStates') = Len(blobs')
             /\ \A k \in 1..Len(lastDraw'.drawn) :
                  LET entry == lastDraw'.drawn[k] IN
                  previousBlobStates'[entry.blob + 1] = SnapshotOf(entry)]_vars
  /\ [](previousBlobStates = <<>>
          => drawsSinceGeneration = 0 \/ blobs = <<>>)

\* a blob's state differs beyond the thresholds
ChangedBeyondThresholds(prev, cur) ==
  \/ fGt(fAbs(cur.rotation - prev.rotation),
         ANIMATION_CONFIG.dirtyRegion.rotationThresholdDegrees)
  \/ fGt(fAbs(cur.position.x - prev.position.x),
         ANIMATION_CONFIG.dirtyRegion.positionThresholdPixels * Unit)
  \/ fGt(fAbs(cur.position.y - prev.position.y),
         ANIMATION_CONFIG.dirtyRegion.positionThresholdPixels * Unit)

\* the boxes the blobs from index i on owe, given the states drawn by the
\* preceding draw body (before) and by this one (after)
RECURSIVE BoxesOwed(_, _, _, _, _)
BoxesOwed(before, after, population, i, size) ==
  IF i > Len(after) THEN <<>>
  ELSE LET prev == SnapshotOf(before[i])
           cur  == SnapshotOf(after[i])
           own  == IF ChangedBeyondThresholds(prev, cur)
                     THEN << calculateBlobBounds(population[i], prev.position,
                                                 prev.scale, size, size),
                             calculateBlobBounds(population[i], cur.position,
                                                 cur.scale, size, size) >>
                     ELSE <<>>
       IN own \o BoxesOwed(before, after, population, i + 1, size)

\* C26: in every executed draw body that is not a full-clear frame, each
\* blob that differs beyond the thresholds from its state at the
\* immediately preceding executed draw body contributes exactly two boxes
\* before merging, the box around that previous state and the box around
\* its current state, and each unchanged blob contributes none.
C26_ChangedBlobsOweTwoBoxes ==
  [][( /\ DrawBodyRan /\ lastDraw'.fullClear = <<>>
       /\ lastDraw.loop # 0
       /\ lastDraw.errors = <<>> /\ lastDraw'.errors = <<>>
       /\ Len(lastDraw.drawn) = Len(lastDraw'.drawn) )
       => lastDraw'.dirtyRegions
            = BoxesOwed(lastDraw.drawn, lastDraw'.drawn, blobs', 1,
                        loops'[lastDraw'.loop].renderSize * Unit)]_vars

\* the absolute value of a whole number
Magnitude(a) == IF a < 0 THEN -a ELSE a

\* C27: a blob counts as changed exactly when |rotation delta| > 5 degrees
\* or |x delta| > 2 px or |y delta| > 2 px, with strict comparisons, and
\* its position is normalizedX * surfaceWidth, normalizedY * surfaceHeight.
C27_ChangedExactlyBeyondThresholds ==
  fnOut # <<>>
    => LET cur == fnOut[1].state
           changed ==
             \/ Magnitude(cur.rotation - ChangePrevState.rotation) > 5
             \/ Magnitude(fnIn.x * ChangeWidth
                            - ChangePrevState.position.x) > 2 * Unit
             \/ Magnitude(fnIn.y * ChangeHeight
                            - ChangePrevState.position.y) > 2 * Unit
       IN /\ cur.position = [x |-> fnIn.x * ChangeWidth,
                             y |-> fnIn.y * ChangeHeight]
          /\ cur.rotation = fnIn.rotation
          /\ changed <=> Len(fnOut[1].regions) = 2
          /\ ~changed <=> fnOut[1].regions = <<>>

\* deltas of exactly 2 px, 2 px and 5 degrees together mark nothing
C27_Witness ==
  /\ fnOut # <<>> /\ fnOut[1].regions = <<>>
  /\ fnOut[1].state.position.x - ChangePrevState.position.x = 2 * Unit
  /\ ChangePrevState.position.y - fnOut[1].state.position.y = 2 * Unit
  /\ fnOut[1].state.rotation = 5

\* C28: every dirty region produced for a blob position, positions off
\* the surface included, lies within the surface: x >= 0, y >= 0,
\* width >= 0, height >= 0, x + width <= surfaceWidth and
\* y + height <= surfaceHeight.
C28_RegionWithinSurface ==
  fnOut # <<>>
    => LET r == fnOut[1] IN
       /\ r.x >= 0 /\ r.y >= 0 /\ r.width >= 0 /\ r.height >= 0
       /\ r.x + r.width <= fnIn.surface * Unit
       /\ r.y + r.height <= fnIn.surface * Unit

\* max(scaleProduct * 50, 20) for the arguments in fnIn, in thousandths
Footprint ==
  Max((fnIn.blobScale * fnIn.scale
         * ANIMATION_CONFIG.dirtyRegion.blobSizeMultiplier) \div Unit,
      ANIMATION_CONFIG.dirtyRegion.minBlobSize * Unit)

\* the position passed to calculateBlobBounds, in thousandths of a pixel
BoundsPosition == [x |-> fnIn.x * fnIn.surface, y |-> fnIn.y * fnIn.surface]

\* C29, as stated: with the position well inside a large surface the box
\* returned is a square centred on the position whose width and height
\* are max(scaleProduct * 50, 20) + 20.
C29_SideIsFootprintPlusPadding ==
  ( /\ fnOut # <<>> /\ fnIn.surface = 1000
    /\ fnIn.x = 500 /\ fnIn.y = 500 )
    => LET r == fnOut[1]
           side == Footprint + 2 * ANIMATION_CONFIG.dirtyRegion.padding * Unit
       IN /\ r.width = side /\ r.height = side
          /\ 2 * r.x + r.width = 2 * BoundsPosition.x
          /\ 2 * r.y + r.height = 2 * BoundsPosition.y

\* C29, amended: max(scaleProduct * 50, 20) is the distance from the
\* position to each side of the footprint, so the box returned for a
\* position far enough from the edges is the square centred on the
\* position whose width and height are 2 * max(scaleProduct * 50, 20) + 20.
C29_SideIsTwiceFootprintPlusPadding ==
  LET reach == Footprint + ANIMATION_CONFIG.dirtyRegion.padding * Unit IN
  ( /\ fnOut # <<>>
    /\ BoundsPosition.x - reach >= 0 /\ BoundsPosition.y - reach >= 0
    /\ BoundsPosition.x + reach <= fnIn.surface * Unit
    /\ BoundsPosition.y + reach <= fnIn.surface * Unit )
    => fnOut[1] = [ x |-> BoundsPosition.x - reach,
                    y |-> BoundsPosition.y - reach,
                    width |-> 2 * reach, height |-> 2 * reach ]

\* the largest blob at the centre of the 1000 px surface: 2 * 144.5 + 20
C29_Witness ==
  /\ fnOut # <<>> /\ fnIn.surface = 1000 /\ fnIn.x = 500 /\ fnIn.y = 500
  /\ fnIn.blobScale = ANIMATION_CONFIG.scaleRange.max
  /\ fnIn.scale = ANIMATION_CONFIG.scaleRange.max
  /\ fnOut[1].width = 309 * Unit /\ fnOut[1].x = 345500

\* the shape handle and the scaleFactor of every blob of a population
ShapesOf(population) ==
  [i \in DOMAIN population |->
     [path |-> population[i].path, scale |-> population[i].scale]]

\* the blobCount of the component's qualitySettings
ResolvedBlobCount(p, st) == settingsOf(p, st).blobCount

\* C30: the population is replaced only at mount and when the resolved
\* blobCount changes, and then as a whole; changes of position, rotation,
\* colors, frameRate, blur or render size leave every blob's shape handle
\* and scaleFactor unchanged, and a frame changes no blob field but the
\* rotation.
C30_PopulationReplacedOnlyOnCount ==
  [][ /\ ShapesOf(blobs') # ShapesOf(blobs)
           => \/ phase = "idle"
              \/ ResolvedBlobCount(props', state')
                   # ResolvedBlobCount(props, state)
      /\ ( /\ phase = "mounted"
           /\ ResolvedBlobCount(props', state')
                # ResolvedBlobCount(props, state) )
           => /\ Len(blobs') = ResolvedBlobCount(props', state')
              /\ \A i \in DOMAIN blobs' :
                   blobs'[i].scale = blobScale(i - 1, Len(blobs'))
      /\ frameRun # <<>> => ShapesOf(blobs') = ShapesOf(blobs) ]_vars

\* frames drew the population unchanged after the host had passed other
\* colors
C30_Witness ==
  /\ phase = "mounted" /\ props.colorPair = HostColorPair
  /\ Len(blobs) = 2 /\ drawsSinceGeneration = 2
  /\ lastDraw.loop # 0 /\ Len(lastDraw.drawn) = 2
  /\ lastDraw.drawn[1].gradient.a = <<"hsl", 120, 50, 50>>

\* the string hslToString builds for a color
HslString(hsl) == <<"hsl", hsl.h, hsl.s, hsl.l>>

\* C31: a change of the color pair does not regenerate the blob population
\* (nor restart the loop); it stores the strings of the two new colors and
\* raises the first-frame flag, which stays raised until a draw body
\* executes; the draw body that finds it raised clears the entire surface
\* it draws on, emits no partial regions and draws every blob with a
\* gradient built from the two stored colors.
C31_ColorChangeRedrawsAll ==
  /\ [](phase = "mounted"
          => blobColorsRef = [a |-> HslString(props.colorPair[1]),
                              b |-> HslString(props.colorPair[2])])
  /\ [][ /\ ( phase = "mounted" /\ props'.colorPair # props.colorPair )
              => /\ blobs' = blobs /\ isFirstFrame'
                 /\ UNCHANGED << starts, loops, activeLoop, rafQueue >>
         /\ ( isFirstFrame /\ ~DrawBodyRan ) => isFirstFrame'
         /\ ( isFirstFrame /\ DrawBodyRan )
              => LET d == lastDraw' IN
                 /\ d.fullClear
                      = << [x |-> 0, y |-> 0,
                            width  |-> loops'[d.loop].renderSize * Unit,
                            height |-> loops'[d.loop].renderSize * Unit] >>
                 /\ d.dirtyRegions = <<>>
                 /\ DrawnIndices(d) = 0..(Len(blobs') - 1)
                 /\ \A k \in 1..Len(d.drawn) :
                      /\ d.drawn[k].gradient.a = blobColorsRef'.a
                      /\ d.drawn[k].gradient.b = blobColorsRef'.b ]_vars

\* after two draw bodies with the first colors the host passed other
\* colors, and the draw body that followed cleared the whole surface and
\* drew both blobs of the unchanged population in the new colors
C31_Witness ==
  /\ phase = "mounted" /\ props.colorPair = HostColorPair /\ hostUpdates = 1
  /\ drawsSinceGeneration = 2 /\ lastDraw.loop # 0 /\ lastDraw.prevTime >= 0
  /\ lastDraw.fullClear # <<>> /\ Len(lastDraw.drawn) = 2
  /\ \A k \in 1..2 :
       /\ lastDraw.drawn[k].gradient.a = HslString(HostColorPair[1])
       /\ lastDraw.drawn[k].gradient.b = HslString(HostColorPair[2])

\* C32: the Path Cache and the Color-String Cache are cleared only at
\* teardown of the engine instance: a step that empties one of them is the
\* unmount of the component, never a change of quality settings, frame
\* rate, blur capability or render size while the engine keeps running.
C32_CachesClearedOnlyAtTeardown ==
  [][ ( \/ path2DPool # EmptyCache /\ path2DPool' = EmptyCache
        \/ colorCache # EmptyCache /\ colorCache' = EmptyCache )
      => ( phase = "mounted" /\ phase' = "unmounted" ) ]_vars

\* a step in which the setup of the render effect replaced the offscreen
\* surface, rebound the Gradient Cache to it and executed the draw body of
\* the new loop at once
DrewOnNewSurface ==
  /\ Len(loops') = Len(loops) + 1 /\ gradientCanvas' = Len(loops')
  /\ DrawBodyRan /\ lastDraw'.loop = Len(loops')

\* C33: after a change that replaces the offscreen surface and invalidates
\* the Gradient Cache, the next executed draw body, here the one the new
\* start executes at once, clears the entire new surface and emits no dirty
\* regions computed from the history recorded for the old surface.
C33_NewSurfaceClearedAsAWhole ==
  [][ DrewOnNewSurface
        => /\ lastDraw'.fullClear
                = << [x |-> 0, y |-> 0,
                      width  |-> loops'[lastDraw'.loop].renderSize * Unit,
                      height |-> loops'[lastDraw'.loop].renderSize * Unit] >>
           /\ lastDraw'.dirtyRegions = <<>> ]_vars

\* the probe of hw reached the renderer string, and the string contains
\* one of the given substrings
RendererRead ==
  /\ hw.windowDefined /\ ~hw.probe.throws /\ hw.probe.gl
  /\ hw.probe.debugInfo /\ hw.probe.renderer # <<>>

Mentions(tokens) == hw.probe.renderer[1] \cap tokens # {}

IntegratedTokens == {"Intel", "HD Graphics"}
MidRangeTokens == {"AMD", "Radeon"}
HighEndTokens == {"NVIDIA", "GeForce", "Apple", "M1", "M2", "M3"}

\* the GPU tier of the first group of substrings the renderer string hits
FirstHit ==
  IF Mentions(IntegratedTokens) THEN <<1>>
  ELSE IF Mentions(MidRangeTokens) THEN <<2>>
  ELSE <<3>>

\* C34, as stated: a renderer string that matches none of the known
\* substrings yields GPU tier unknown, not 2; matching is by first hit in
\* the order integrated (1), mid-range (2), high-end / unified-memory (3).
C34_UnmatchedIsUnknown ==
  ( fnOut # <<>> /\ RendererRead )
    => fnOut[1] = IF Mentions(RendererTokens) THEN Return(FirstHit)
                  ELSE Return(<<>>)

\* C34, amended: a renderer string that matches none of the known
\* substrings yields GPU tier 2, the mid-range default; the tier is unknown
\* only when the probe does not reach a renderer string; matching is by
\* first hit in the order integrated (1), mid-range (2), high-end /
\* unified-memory (3).
C34_UnmatchedIsMidRange ==
  fnOut # <<>>
    => fnOut[1] = IF ~RendererRead THEN Return(<<>>)
                  ELSE IF Mentions(RendererTokens) THEN Return(FirstHit)
                  ELSE Return(<<2>>)

\* a renderer string without any of the substrings was classified
C34_Witness ==
  /\ fnOut # <<>> /\ RendererRead /\ hw.probe.renderer = << {} >>
  /\ fnOut[1] = Return(<<2>>)

\* C35: without an explicit tier override hardware detection is started
\* exactly once per engine instance, at mount, and the detected tier is
\* written at most once, whatever the host re-supplies afterwards (new
\* control values, a new onError function); with an explicit override
\* detection is never started, no tier is written and the effective tier
\* equals the override.
C35_DetectionStartedOnce ==
  /\ [](( phase = "mounted" /\ props.performanceTierProp # <<>> )
          => /\ inflight = 0
             /\ nextState.detectedPerformanceTier = <<>>
             /\ tierOf(props, state) = props.performanceTierProp[1])
  /\ [][ /\ ( phase = "idle" /\ phase' = "mounted"
              /\ props.performanceTierProp = <<>> ) => inflight' = 1
         /\ inflight' > inflight => phase = "idle"
         /\ nextState'.detectedPerformanceTier
              # nextState.detectedPerformanceTier
              => nextState.detectedPerformanceTier = <<>>
         /\ ( inflight' < inflight /\ phase = "mounted" )
              => nextState.detectedPerformanceTier = <<>> ]_vars

\* the frame callbacks that are scheduled and have not run yet
PendingCallbacks == Len(rafQueue) + Len(frameRun)

\* C36: at every moment an engine instance has at most one scheduled frame
\* callback pending, across starts, settings changes and teardown; while it
\* is running (a start succeeded and its cleanup has not run) it has
\* exactly one, and that one belongs to the running loop.
C36_AtMostOneLoop ==
  /\ PendingCallbacks <= 1
  /\ activeLoop # 0
       => /\ PendingCallbacks = 1
          /\ rafQueue \o frameRun = << activeLoop >>

\* C37: every gradient handle held in the Gradient Cache was created by
\* the offscreen surface the cache is currently bound to, and every draw
\* body that inserts or reads an entry belongs to the loop of that surface
\* and gets handles created by it.
C37_GradientsOfBoundSurface ==
  /\ [](\A key \in DOMAIN gradientCache :
          gradientCache[key].surface = gradientCanvas)
  /\ [][ DrawBodyRan
           => /\ lastDraw'.loop = gradientCanvas'
              /\ \A k \in 1..Len(lastDraw'.drawn) :
                   lastDraw'.drawn[k].gradient.surface = lastDraw'.loop ]_vars

(***************************************************************************)
(* The frame callback of one loop under drifting control values: before    *)
(* every frame the host supplies a new X for the blobs.  fnIn holds the    *)
(* values supplied so far; fnOut holds, for every blob, the state it was   *)
(* drawn at in the last frame that cleared the box around it.              *)
(***************************************************************************)
\* normalized X positions 1.6 px apart on the 32 px surface
DriftXs == {500, 550, 600}

DriftInit ==
  /\ props \in {p \in EngineProps : /\ p.performanceTierProp = <<>>
                                    /\ p.qualitySettingsProp = <<>>}
  /\ hw \in {e \in EngineHardware : e.deviceMemory = <<>>}
  /\ Unmounted
  /\ fnIn = <<>> /\ fnOut = <<>>

\* the box around the state a draw body drew blob i at
DrawnBox(d, population, i) ==
  calculateBlobBounds(population[i], d.drawn[i].position, d.drawn[i].scale,
                      loops[d.loop].renderSize * Unit,
                      loops[d.loop].renderSize * Unit)

\* the draw body d cleared the box
Cleared(d, box) ==
  \/ d.fullClear # <<>>
  \/ \E k \in DOMAIN d.cleared : Inside(box, d.cleared[k])

\* the states of the blobs at the time their area was last cleared, after
\* the draw body d
ClearedAt(history, d, population) ==
  [i \in 1..Len(d.drawn) |->
     IF Cleared(d, DrawnBox(d, population, i))
       THEN SnapshotOf(d.drawn[i]) ELSE history[i]]

\* the host supplies X and the browser runs the frame callback of the loop
DriftFrame ==
  /\ phase = "mounted" /\ rafQueue # <<>>
  /\ Len(fnIn) < MaxDriftFrames
  /\ now' = now + DriftStepMs
  /\ \E x \in DriftXs :
       /\ props' = [props EXCEPT !.blobX = Scalar(x)]
       /\ Store(render(refEffects([Heap EXCEPT !.rafQueue = Tail(@)], props'),
                       Head(rafQueue), now', settingsOf(props, state).frameRate))
       /\ fnIn' = Append(fnIn, x)
  /\ fnOut' = IF lastDraw' # lastDraw
                THEN ClearedAt(fnOut, lastDraw', blobs') ELSE fnOut
  /\ UNCHANGED << phase, state, hw, frameRun, hostUpdates >>

DriftNext == Mount \/ DriftFrame

SpecDrift == DriftInit /\ [][DriftNext]_vars

\* C38: no stale blob image survives drift: whenever a blob is drawn at a
\* state that differs beyond the change thresholds from the state at which
\* its area was last cleared, that frame clears the boxes around both
\* states, also when the difference accumulated over several frames of
\* individually sub-threshold steps.
C38_DriftIsCleared ==
  [][ ( Len(fnIn') > Len(fnIn) /\ DrawBodyRan /\ fnOut # <<>> )
      => \A i \in 1..Len(lastDraw'.drawn) :
           LET d    == lastDraw'
               cur  == SnapshotOf(d.drawn[i])
               last == fnOut[i]
           IN ChangedBeyondThresholds(last, cur)
                => /\ Cleared(d, DrawnBox(d, blobs', i))
                   /\ Cleared(d, calculateBlobBounds(
                                   blobs'[i], last.position, last.scale,
                                   loops[d.loop].renderSize * Unit,
                                   loops[d.loop].renderSize * Unit)) ]_vars

\* C39: when the memory reading or the core-count reading is absent (so it
\* defaults to 2 GB / 2 cores) and the readings can be taken, detectTier
\* returns low for every GPU tier and every value of the other reading.
C39_AbsentReadingGivesLow ==
  ( /\ fnOut # <<>>
    /\ hw.windowDefined /\ hw.navigatorDefined /\ ~hw.readThrows
    /\ hw.deviceMemory = <<>> \/ hw.hardwareConcurrency = <<>> )
    => fnOut[1] = Return("low")

\* a machine with 8 GB and a high-end graphics card that does not report
\* its core count was classified low
C39_Witness ==
  /\ fnOut = << Return("low") >>
  /\ hw.windowDefined /\ hw.navigatorDefined /\ ~hw.readThrows
  /\ hw.deviceMemory = <<8>> /\ hw.hardwareConcurrency = <<>>
  /\ hw.probe = Probe(FALSE, TRUE, TRUE, << {"NVIDIA", "GeForce"} >>)

====
